---- MODULE Spec2Model ----
(***************************************************************************)
(* A model of the invoicing store of kmatt_invoice (src/src/database.rs):  *)
(* the in-memory aggregate (customers, invoices, last_invoice_nums), the   *)
(* persisted document database.json, and the GUI record operations.        *)
(***************************************************************************)
EXTENDS Integers, Sequences, FiniteSets, TLC

VARIABLES
    company,            \* Database.company
    customers,          \* Database.customers: name -> Customer
    invoices,           \* Database.invoices: invoice number -> Invoice
    last_invoice_nums,  \* Database.last_invoice_nums: code -> u32
    disk,               \* the content of database.json (NoFile when absent)
    ret,                \* the last call and the Result it returned: Ok(val) or Err(res)
    created_for,        \* history: invoice number -> the customer it was created for
    issued,             \* history: customer name -> the numbers issued to it, each with the code it was issued under
    save_failures,      \* history: how many save() calls have failed so far
    calls,              \* history: how many calls have changed the aggregate so far
    app,                \* KmattInvoiceApp without its db: the caches, the selections and the dialogs
    backups,            \* the files database.json.<timestamp>.bak: timestamp -> content
    clock,              \* Utc::now() in whole seconds
    pdf_files,          \* the names of the PDF files written so far
    loads,              \* history: the second of every load() that found database.json
    backup_failures     \* history: how many backup_database() calls have failed so far

vars == <<company, customers, invoices, last_invoice_nums, disk, ret,
          created_for, issued, save_failures, calls,
          app, backups, clock, pdf_files, loads, backup_failures>>

\* what the record operations of Database neither read nor write
others == <<app, backups, clock, pdf_files, loads, backup_failures>>

(***************************************************************************)
(* Bounds of the model.                                                    *)
(***************************************************************************)
\* the largest number of calls that change the aggregate in one behaviour
MaxCalls == 5
\* the largest number of save() failures injected in one behaviour
MaxSaveFailures == 1
\* the largest finite magnitude of the model's f64 (f64::MAX in the program)
F64Max == 1000
\* the second of the minute at which the first process starts
ClockStart == 8
\* the last second at which a process starts
MaxClock == 14
\* the largest number of load() calls that find a document in one behaviour
MaxLoads == 7
\* the largest number of backup_database() failures injected in one behaviour
MaxBackupFailures == 1
\* the same, where the rotation itself is examined
MaxRotationFailures == 2
\* dialogs shown at once
MaxDialogs == 1
\* calls of save() in a behaviour of the console specification
MaxMainCalls == 4
\* record operations called in a behaviour of the query specification
MaxQueryCalls == 2
\* record operations called from the GUI that reach save()
MaxGuiCalls == 3

(***************************************************************************)
(* Strings.  A Rust String is a TLA+ string; a character is a string of    *)
(* length one.                                                             *)
(***************************************************************************)
Lower == <<"a","b","c","d","e","f","g","h","i","j","k","l","m",
           "n","o","p","q","r","s","t","u","v","w","x","y","z">>
Upper == <<"A","B","C","D","E","F","G","H","I","J","K","L","M",
           "N","O","P","Q","R","S","T","U","V","W","X","Y","Z">>
Whitespace == {" "}

CharAt(s, i) == SubSeq(s, i, i)

\* char::is_ascii_alphabetic
IsAsciiAlphabetic(c) == \E i \in 1..26 : c = Lower[i] \/ c = Upper[i]

\* char::to_uppercase on one character
UpperChar(c) ==
    IF \E i \in 1..26 : c = Lower[i]
    THEN Upper[CHOOSE i \in 1..26 : c = Lower[i]]
    ELSE c

\* str::to_uppercase
RECURSIVE ToUppercase(_)
ToUppercase(s) ==
    IF Len(s) = 0 THEN ""
    ELSE UpperChar(CharAt(s, 1)) \o ToUppercase(SubSeq(s, 2, Len(s)))

\* str::trim: strips leading and trailing whitespace
RECURSIVE TrimStart(_)
TrimStart(s) ==
    IF Len(s) > 0 /\ CharAt(s, 1) \in Whitespace
    THEN TrimStart(SubSeq(s, 2, Len(s)))
    ELSE s

RECURSIVE TrimEnd(_)
TrimEnd(s) ==
    IF Len(s) > 0 /\ CharAt(s, Len(s)) \in Whitespace
    THEN TrimEnd(SubSeq(s, 1, Len(s) - 1))
    ELSE s

Trim(s) == TrimEnd(TrimStart(s))

\* a variant that trims the code and leaves its case
NormalizeCodeTrimOnly(code) == Trim(code)

\* customer.code.trim().to_uppercase()
NormalizeCode(code) == ToUppercase(Trim(code))

\* code.len() >= 2 && code.len() <= 3 && code.chars().all(is_ascii_alphabetic)
ValidCode(code) ==
    /\ Len(code) >= 2
    /\ Len(code) <= 3
    /\ \A i \in 1..Len(code) : IsAsciiAlphabetic(CharAt(code, i))

(***************************************************************************)
(* Maps (HashMap) as functions.                                            *)
(***************************************************************************)
EmptyMap == <<>>

\* HashMap::insert: adds the key or replaces the value it already holds
Insert(m, k, v) == [x \in DOMAIN m \cup {k} |-> IF x = k THEN v ELSE m[x]]

\* a variant that removes nothing
RemoveNothing(m, k) == m

\* HashMap::remove
Remove(m, k) == [x \in DOMAIN m \ {k} |-> m[x]]

(***************************************************************************)
(* f64.  A value is finite (an integer of magnitude at most F64Max),       *)
(* infinite (v is its sign) or NaN; a result beyond F64Max overflows to    *)
(* the infinity of its sign, as IEEE 754 arithmetic does.                  *)
(***************************************************************************)
F64(v) == [cls |-> "finite", v |-> v]
PosInf == [cls |-> "inf", v |-> 1]
NegInf == [cls |-> "inf", v |-> -1]
NaN == [cls |-> "nan", v |-> 0]

F64Round(n) ==
    IF n > F64Max THEN PosInf
    ELSE IF n < -F64Max THEN NegInf
    ELSE F64(n)

\* item.quantity as f64 * item.rate
F64Mul(quantity, rate) ==
    IF rate.cls = "nan" THEN NaN
    ELSE IF rate.cls = "inf"
    THEN IF quantity = 0 THEN NaN ELSE rate
    ELSE F64Round(quantity * rate.v)

\* subtotal += amount
F64Add(a, b) ==
    IF a.cls = "nan" \/ b.cls = "nan" THEN NaN
    ELSE IF a.cls = "inf" /\ b.cls = "inf"
    THEN IF a.v = b.v THEN a ELSE NaN
    ELSE IF a.cls = "inf" THEN a
    ELSE IF b.cls = "inf" THEN b
    ELSE F64Round(a.v + b.v)

\* == on f64: NaN equals nothing
F64Eq(a, b) == a.cls # "nan" /\ b.cls # "nan" /\ a = b

(***************************************************************************)
(* Records of models.rs.                                                   *)
(***************************************************************************)
Customer(name, address, code) ==
    [name |-> name, address |-> address, phone |-> "", contact_person |-> "",
     contact_phone |-> "", email |-> "", code |-> code]

InvoiceItem(description, quantity, rate, amount) ==
    [description |-> description, quantity |-> quantity, rate |-> rate,
     amount |-> amount]

\* Database::new
NewCompany ==
    [name |-> "JMATTS CLEANING Canberra", abn |-> "78734213681",
     address |-> "40 Wyndham Avenue Denman Prospect, ACT, 2611",
     phone |-> "0403-491446"]

\* the value a sequence counter is seeded with
SeedValue == 75

(***************************************************************************)
(* Dates.  A NaiveDate is a day number.  chrono's                          *)
(* Local.from_local_datetime gives no instant for a local midnight that a  *)
(* daylight-saving change skips, two for one that it repeats, and one      *)
(* otherwise; single() keeps only the last case.                           *)
(***************************************************************************)
GapDays == {2}
FoldDays == {4}

FromLocalDatetime(day) ==
    IF day \in GapDays THEN {}
    ELSE IF day \in FoldDays THEN {[day |-> day, fold |-> 0], [day |-> day, fold |-> 1]}
    ELSE {[day |-> day, fold |-> 0]}

\* LocalResult::single
HasSingle(r) == Cardinality(r) = 1
Single(r) == CHOOSE t \in r : TRUE

(***************************************************************************)
(* The persisted document and save().                                      *)
(***************************************************************************)
NoFile == [kind |-> "absent"]
Malformed == [kind |-> "malformed"]

\* serde_json writes a finite f64 as a number and NaN or an infinity as null
JsonNull == [cls |-> "null", v |-> 0]
JsonF64(x) == IF x.cls = "finite" THEN x ELSE JsonNull

\* chrono writes a DateTime<Local> as an RFC 3339 string: the local date and
\* time with the offset in force, and reads it back as the same instant
ToRfc3339(t) == [local |-> t.day, offset |-> t.fold]
ParseRfc3339(j) == [day |-> j.local, fold |-> j.offset]

JsonItem(item) == [item EXCEPT !.rate = JsonF64(@), !.amount = JsonF64(@)]

JsonInvoice(invoice) ==
    [invoice EXCEPT !.date = ToRfc3339(@),
                    !.due_date = ToRfc3339(@),
                    !.items = [i \in DOMAIN @ |-> JsonItem(@[i])],
                    !.subtotal = JsonF64(@),
                    !.total = JsonF64(@)]

\* serde_json::to_writer_pretty(file, self): the four top-level fields
Serialize(co, cu, inv, nums) ==
    [kind |-> "document", company |-> co, customers |-> cu,
     invoices |-> [n \in DOMAIN inv |-> JsonInvoice(inv[n])],
     last_invoice_nums |-> nums]

\* serde reads an f64 from a JSON number only: null is an error
ReadableF64(j) == j.cls = "finite"

ReadableInvoice(j) ==
    /\ ReadableF64(j.subtotal)
    /\ ReadableF64(j.total)
    /\ \A i \in DOMAIN j.items :
          ReadableF64(j.items[i].rate) /\ ReadableF64(j.items[i].amount)

FromJsonInvoice(j) ==
    [j EXCEPT !.date = ParseRfc3339(@), !.due_date = ParseRfc3339(@)]

\* Database::new
NewDatabase ==
    [company |-> NewCompany, customers |-> EmptyMap, invoices |-> EmptyMap,
     last_invoice_nums |-> EmptyMap]

\* load(): Ok(Database::new()) when there is no file, otherwise what
\* serde_json::from_reader makes of the file
LoadResult(d) ==
    IF d.kind = "absent" THEN "Ok"
    ELSE IF d.kind = "malformed" THEN "Serialization"
    ELSE IF \A n \in DOMAIN d.invoices : ReadableInvoice(d.invoices[n])
    THEN "Ok"
    ELSE "Serialization"

\* the aggregate load() returns when LoadResult is Ok
LoadDatabase(d) ==
    IF d.kind = "absent" THEN NewDatabase
    ELSE [company |-> d.company, customers |-> d.customers,
          invoices |-> [n \in DOMAIN d.invoices |-> FromJsonInvoice(d.invoices[n])],
          last_invoice_nums |-> d.last_invoice_nums]

\* save() opens database.json with truncate and writes the document: the open
\* can fail (the file is left as it was) and the write can fail (the file is
\* left truncated or partial)
SaveOutcomes == {"ok", "open_err", "write_err"}

\* a variant that reports success whatever happened
SaveErrorSwallowed(outcome) == "Ok"

SaveError(outcome) ==
    CASE outcome = "ok" -> "Ok"
      [] outcome = "open_err" -> "Io"
      [] outcome = "write_err" -> "Serialization"

\* a variant that never writes the document
SaveDiskUnwritten(outcome, old, doc) == old

SaveDisk(outcome, old, doc) ==
    CASE outcome = "ok" -> doc
      [] outcome = "open_err" -> old
      [] outcome = "write_err" -> Malformed

\* self.save()? as the last step of an operation that has mutated the aggregate
Save(outcome, op, val) ==
    /\ outcome \in SaveOutcomes
    /\ outcome # "ok" => save_failures < MaxSaveFailures
    /\ calls < MaxCalls
    /\ calls' = calls + 1
    /\ disk' = SaveDisk(outcome, disk,
                        Serialize(company', customers', invoices', last_invoice_nums'))
    /\ save_failures' = IF outcome = "ok" THEN save_failures ELSE save_failures + 1
    /\ ret' = [op |-> op, res |-> SaveError(outcome),
               val |-> IF outcome = "ok" THEN val ELSE ""]

\* return Err(e) on a path that has not called save()
Fail(op, err) ==
    /\ ret' = [op |-> op, res |-> err, val |-> ""]
    /\ UNCHANGED <<disk, save_failures, calls>>

(***************************************************************************)
(* Customers.                                                              *)
(***************************************************************************)
Gone == "(deleted)"

\* a variant that never finds the name registered
ContainsKeyNever(m, k) == FALSE

\* HashMap::contains_key
ContainsKey(m, k) == k \in DOMAIN m

\* a variant that never finds the code in use
CodeInUseNever(cu, code) == FALSE

\* self.customers.values().any(|c| c.code == code)
CodeInUse(cu, code) == \E n \in DOMAIN cu : cu[n].code = code

\* a variant that never finds the new code in use
CodeInUseByOtherNever(cu, original_name, code) == FALSE

\* self.customers.values().any(|c| c.name != original_name && c.code == new_code)
CodeInUseByOther(cu, original_name, code) ==
    \E n \in DOMAIN cu : cu[n].name # original_name /\ cu[n].code = code

\* a variant that adds no counter
OrInsertSeedMissing(nums, code) == nums

\* self.last_invoice_nums.entry(code).or_insert(75)
OrInsertSeed(nums, code) ==
    IF code \in DOMAIN nums THEN nums ELSE Insert(nums, code, SeedValue)

AddCustomerGui(customer, outcome) ==
    LET name == Trim(customer.name)
        code == NormalizeCode(customer.code)
        validated == [customer EXCEPT !.name = name, !.code = code]
    IN  IF name = ""
        THEN /\ Fail("add_customer_gui", "InvalidInput")
             /\ UNCHANGED <<company, customers, invoices, last_invoice_nums,
                            created_for, issued>>
        ELSE IF ContainsKey(customers, name)
        THEN /\ Fail("add_customer_gui", "CustomerExists")
             /\ UNCHANGED <<company, customers, invoices, last_invoice_nums,
                            created_for, issued>>
        ELSE IF ~ValidCode(code)
        THEN /\ Fail("add_customer_gui", "InvalidInput")
             /\ UNCHANGED <<company, customers, invoices, last_invoice_nums,
                            created_for, issued>>
        ELSE IF CodeInUse(customers, code)
        THEN /\ Fail("add_customer_gui", "InvalidInput")
             /\ UNCHANGED <<company, customers, invoices, last_invoice_nums,
                            created_for, issued>>
        ELSE /\ customers' = Insert(customers, name, validated)
             /\ last_invoice_nums' = OrInsertSeed(last_invoice_nums, code)
             /\ issued' = Insert(issued, name, {})
             /\ UNCHANGED <<company, invoices, created_for>>
             /\ Save(outcome, "add_customer_gui", "")

\* a variant that seeds the new code afresh instead of moving the count
MigrateCounterReseed(nums, old_code, new_code) ==
    IF old_code # new_code
    THEN Insert(Remove(nums, old_code), new_code, SeedValue)
    ELSE nums

\* lines 224-227: the counter moves from the old code to the new one
MigrateCounter(nums, old_code, new_code) ==
    IF old_code # new_code
    THEN LET last_num == IF old_code \in DOMAIN nums THEN nums[old_code] ELSE SeedValue
         IN  Insert(Remove(nums, old_code), new_code, last_num)
    ELSE nums

\* history: the invoices created for original_name now belong to new_name
Renamed(m, original_name, new_name) ==
    [n \in DOMAIN m |-> IF m[n] = original_name THEN new_name ELSE m[n]]

EditCustomerGui(original_name, updated_customer, outcome) ==
    LET new_name == Trim(updated_customer.name)
        new_code == NormalizeCode(updated_customer.code)
        final_customer == [updated_customer EXCEPT !.name = new_name, !.code = new_code]
    IN  IF new_name = ""
        THEN /\ Fail("edit_customer_gui", "InvalidInput")
             /\ UNCHANGED <<company, customers, invoices, last_invoice_nums,
                            created_for, issued>>
        ELSE IF ~ValidCode(new_code)
        THEN /\ Fail("edit_customer_gui", "InvalidInput")
             /\ UNCHANGED <<company, customers, invoices, last_invoice_nums,
                            created_for, issued>>
        ELSE IF original_name \notin DOMAIN customers
        THEN /\ Fail("edit_customer_gui", "CustomerNotFound")
             /\ UNCHANGED <<company, customers, invoices, last_invoice_nums,
                            created_for, issued>>
        ELSE IF original_name # new_name /\ ContainsKey(customers, new_name)
        THEN /\ Fail("edit_customer_gui", "CustomerExists")
             /\ UNCHANGED <<company, customers, invoices, last_invoice_nums,
                            created_for, issued>>
        ELSE IF /\ customers[original_name].code # new_code
                /\ CodeInUseByOther(customers, original_name, new_code)
        THEN /\ Fail("edit_customer_gui", "InvalidInput")
             /\ UNCHANGED <<company, customers, invoices, last_invoice_nums,
                            created_for, issued>>
        ELSE /\ customers' = Insert(Remove(customers, original_name),
                                    new_name, final_customer)
             /\ last_invoice_nums' = MigrateCounter(last_invoice_nums,
                                        customers[original_name].code, new_code)
             /\ created_for' = Renamed(created_for, original_name, new_name)
             /\ issued' = Insert(Remove(issued, original_name), new_name,
                                 issued[original_name])
             /\ UNCHANGED <<company, invoices>>
             /\ Save(outcome, "edit_customer_gui", "")

\* a variant that leaves the invoice registry alone
CascadeInvoicesNone(inv, customer_code) == inv

\* lines 247-253: the invoices whose embedded customer has the code are removed
CascadeInvoices(inv, customer_code) ==
    [n \in {k \in DOMAIN inv : inv[k].customer.code # customer_code} |-> inv[n]]

\* lines 238-243: a record of the code is found among the values of the map,
\* and the entry removed is the one whose key is the name in that record
DeleteCustomerGui(customer_code, outcome) ==
    IF ~CodeInUse(customers, customer_code)
    THEN /\ Fail("delete_customer_gui", "CustomerNotFound")
         /\ UNCHANGED <<company, customers, invoices, last_invoice_nums,
                        created_for, issued>>
    ELSE \E customer_name \in {customers[n].name : n \in {k \in DOMAIN customers :
                                    customers[k].code = customer_code}} :
             /\ customers' = Remove(customers, customer_name)
             /\ last_invoice_nums' = Remove(last_invoice_nums, customer_code)
             /\ invoices' = CascadeInvoices(invoices, customer_code)
             /\ created_for' = [n \in DOMAIN invoices' |->
                                   IF created_for[n] = customer_name
                                   THEN Gone ELSE created_for[n]]
             /\ issued' = Remove(issued, customer_name)
             /\ UNCHANGED company
             /\ Save(outcome, "delete_customer_gui", "")

(***************************************************************************)
(* Invoices.                                                               *)
(***************************************************************************)
\* a variant that takes every item list for a non-empty one
IsEmptyNever(items) == FALSE

\* Vec::is_empty
IsEmpty(items) == items = <<>>

\* format!("{}{}", customer_code, next_num) after or_insert(75) and += 1
GenerateNextInvoiceNumber(nums, customer_code) ==
    LET seeded == OrInsertSeed(nums, customer_code)
        next_num == seeded[customer_code] + 1
    IN  [nums |-> Insert(seeded, customer_code, next_num),
         number |-> customer_code \o ToString(next_num)]

\* a variant that keeps the amount the caller supplied
CalculateItemsTrusting(items) == items

\* lines 299-308 and 351-360: amount = quantity as f64 * rate for every item,
\* whatever amount came in
RECURSIVE CalculateItems(_)
CalculateItems(items) ==
    IF items = <<>> THEN <<>>
    ELSE <<[Head(items) EXCEPT !.amount = F64Mul(Head(items).quantity, Head(items).rate)]>>
         \o CalculateItems(Tail(items))

\* subtotal = 0.0, then subtotal += amount item by item
RECURSIVE SubtotalFrom(_, _)
SubtotalFrom(subtotal, calculated_items) ==
    IF calculated_items = <<>> THEN subtotal
    ELSE SubtotalFrom(F64Add(subtotal, Head(calculated_items).amount),
                      Tail(calculated_items))

Subtotal(calculated_items) == SubtotalFrom(F64(0), calculated_items)

\* Local::now()
Now(day) == [day |-> day, fold |-> 0]

CreateInvoiceGui(customer_code, items, notes, due_date_naive, today, outcome) ==
    IF ~CodeInUse(customers, customer_code)
    THEN /\ Fail("create_invoice_gui", "CustomerNotFound")
         /\ UNCHANGED <<company, customers, invoices, last_invoice_nums,
                        created_for, issued>>
    ELSE IF IsEmpty(items)
    THEN /\ Fail("create_invoice_gui", "InvalidInput")
         /\ UNCHANGED <<company, customers, invoices, last_invoice_nums,
                        created_for, issued>>
    ELSE LET gen == GenerateNextInvoiceNumber(last_invoice_nums, customer_code)
             due == FromLocalDatetime(due_date_naive)
             calculated_items == CalculateItems(items)
         IN  /\ last_invoice_nums' = gen.nums
             /\ IF ~HasSingle(due)
                THEN /\ calls < MaxCalls
                     /\ calls' = calls + 1
                     /\ ret' = [op |-> "create_invoice_gui", res |-> "InvalidInput", val |-> ""]
                     /\ UNCHANGED <<company, customers, invoices, created_for, issued,
                                    disk, save_failures>>
                ELSE \E name \in {n \in DOMAIN customers :
                                      customers[n].code = customer_code} :
                        LET invoice ==
                              [invoice_number |-> gen.number,
                               date |-> Now(today),
                               due_date |-> Single(due),
                               customer |-> customers[name],
                               items |-> calculated_items,
                               subtotal |-> Subtotal(calculated_items),
                               total |-> Subtotal(calculated_items),
                               notes |-> notes,
                               paid |-> FALSE]
                        IN  /\ invoices' = Insert(invoices, gen.number, invoice)
                            /\ created_for' = Insert(created_for, gen.number, name)
                            /\ issued' = [issued EXCEPT ![name] =
                                  @ \cup {[code |-> customer_code, num |-> gen.number]}]
                            /\ UNCHANGED <<company, customers>>
                            /\ Save(outcome, "create_invoice_gui", gen.number)

\* a variant that takes a fresh copy of the customer from the registry
EditedInvoiceResnapshot(invoice, calculated_items, notes, due_date, paid) ==
    [invoice EXCEPT !.items = calculated_items,
                    !.notes = notes,
                    !.due_date = due_date,
                    !.paid = paid,
                    !.subtotal = Subtotal(calculated_items),
                    !.total = Subtotal(calculated_items),
                    !.customer =
                        IF CodeInUse(customers, @.code)
                        THEN customers[CHOOSE n \in DOMAIN customers :
                                           customers[n].code = @.code]
                        ELSE @]

\* a variant that stamps the invoice with the due date as its issue date
EditedInvoiceRedated(invoice, calculated_items, notes, due_date, paid) ==
    [invoice EXCEPT !.items = calculated_items,
                    !.notes = notes,
                    !.date = due_date,
                    !.due_date = due_date,
                    !.paid = paid,
                    !.subtotal = Subtotal(calculated_items),
                    !.total = Subtotal(calculated_items)]

\* lines 364-369: the six fields edit_invoice_gui assigns
EditedInvoice(invoice, calculated_items, notes, due_date, paid) ==
    [invoice EXCEPT !.items = calculated_items,
                    !.notes = notes,
                    !.due_date = due_date,
                    !.paid = paid,
                    !.subtotal = Subtotal(calculated_items),
                    !.total = Subtotal(calculated_items)]

EditInvoiceGui(invoice_number, items, notes, due_date_naive, paid, outcome) ==
    IF invoice_number \notin DOMAIN invoices
    THEN /\ Fail("edit_invoice_gui", "InvoiceNotFound")
         /\ UNCHANGED <<company, customers, invoices, last_invoice_nums,
                        created_for, issued>>
    ELSE IF IsEmpty(items)
    THEN /\ Fail("edit_invoice_gui", "InvalidInput")
         /\ UNCHANGED <<company, customers, invoices, last_invoice_nums,
                        created_for, issued>>
    ELSE IF ~HasSingle(FromLocalDatetime(due_date_naive))
    THEN /\ Fail("edit_invoice_gui", "InvalidInput")
         /\ UNCHANGED <<company, customers, invoices, last_invoice_nums,
                        created_for, issued>>
    ELSE /\ invoices' = [invoices EXCEPT ![invoice_number] =
                EditedInvoice(@, CalculateItems(items), notes,
                              Single(FromLocalDatetime(due_date_naive)), paid)]
         /\ UNCHANGED <<company, customers, last_invoice_nums, created_for, issued>>
         /\ Save(outcome, "edit_invoice_gui", "")

DeleteInvoiceGui(invoice_number, outcome) ==
    IF invoice_number \notin DOMAIN invoices
    THEN /\ Fail("delete_invoice_gui", "InvoiceNotFound")
         /\ UNCHANGED <<company, customers, invoices, last_invoice_nums,
                        created_for, issued>>
    ELSE /\ invoices' = Remove(invoices, invoice_number)
         /\ created_for' = Remove(created_for, invoice_number)
         /\ UNCHANGED <<company, customers, last_invoice_nums, issued>>
         /\ Save(outcome, "delete_invoice_gui", "")

\* a variant that flips the flag
MarkedPaidToggled(invoice) == [invoice EXCEPT !.paid = ~@]

\* invoice.paid = true
MarkedPaid(invoice) == [invoice EXCEPT !.paid = TRUE]

MarkInvoicePaidGui(invoice_number, outcome) ==
    IF invoice_number \in DOMAIN invoices
    THEN /\ invoices' = [invoices EXCEPT ![invoice_number] = MarkedPaid(@)]
         /\ UNCHANGED <<company, customers, last_invoice_nums, created_for, issued>>
         /\ Save(outcome, "mark_invoice_paid_gui", "")
    ELSE /\ Fail("mark_invoice_paid_gui", "InvoiceNotFound")
         /\ UNCHANGED <<company, customers, invoices, last_invoice_nums,
                        created_for, issued>>

(***************************************************************************)
(* The queries.                                                            *)
(***************************************************************************)
\* Option<T>
None == <<>>
Some(x) == <<x>>

\* the characters the model's strings are made of, in the order of their bytes
Alphabet == <<" ", "(", ")", "0", "1", "2", "3", "4", "5", "6", "7", "8", "9">>
            \o Upper \o Lower

Byte(c) == CHOOSE i \in 1..Len(Alphabet) : Alphabet[i] = c

\* str::cmp is Less: the order of the bytes, a proper prefix first.  The
\* strings are compared half by half: where the first halves are equal the
\* rest decides, otherwise the first halves do.
RECURSIVE StrLess(_, _)
StrLess(a, b) ==
    IF a = b \/ b = "" THEN FALSE
    ELSE IF a = "" THEN TRUE
    ELSE IF CharAt(a, 1) # CharAt(b, 1)
    THEN Byte(CharAt(a, 1)) < Byte(CharAt(b, 1))
    ELSE IF Len(a) = 1 THEN TRUE
    ELSE IF Len(b) = 1 THEN FALSE
    ELSE LET half == (IF Len(a) < Len(b) THEN Len(a) ELSE Len(b)) \div 2
         IN  IF SubSeq(a, 1, half) = SubSeq(b, 1, half)
             THEN StrLess(SubSeq(a, half + 1, Len(a)), SubSeq(b, half + 1, Len(b)))
             ELSE StrLess(SubSeq(a, 1, half), SubSeq(b, 1, half))

\* the values of the map sorted by a.name.cmp(&b.name): the sort is stable and
\* the map iterates in no specified order, so records of one name (a document
\* can hold them under different keys) come in any order; the set of the
\* lists the call can return
RECURSIVE GetCustomersVec(_)
GetCustomersVec(cu) ==
    IF DOMAIN cu = {} THEN {<<>>}
    ELSE UNION { {<<cu[n]>> \o t : t \in GetCustomersVec(Remove(cu, n))} :
                 n \in {k \in DOMAIN cu :
                           \A m \in DOMAIN cu : ~StrLess(cu[m].name, cu[k].name)} }

\* DateTime<Local>::cmp is Less: the order of the instants
DateLess(a, b) == a.day < b.day \/ (a.day = b.day /\ a.fold < b.fold)

\* a variant that lists the oldest invoice first
RECURSIVE SortByDateAscending(_, _)
SortByDateAscending(inv, keys) ==
    IF keys = {} THEN {<<>>}
    ELSE UNION { {<<inv[x]>> \o t : t \in SortByDateAscending(inv, keys \ {x})} :
                 x \in {y \in keys :
                           \A z \in keys : ~DateLess(inv[z].date, inv[y].date)} }

\* sort_by(|a, b| b.date.cmp(&a.date)) over the values of a HashMap, here the
\* ones under keys: the sort is stable and the map iterates in no specified
\* order, so invoices of one instant come in any order; the set of the orders
\* the call can return, one row per key
RECURSIVE SortByDateDescending(_, _)
SortByDateDescending(inv, keys) ==
    IF keys = {} THEN {<<>>}
    ELSE UNION { {<<inv[x]>> \o t : t \in SortByDateDescending(inv, keys \ {x})} :
                 x \in {y \in keys :
                           \A z \in keys : ~DateLess(inv[y].date, inv[z].date)} }

\* the lists get_invoices_for_customer can return: a row for every entry of
\* the map whose embedded customer has the code
GetInvoicesForCustomer(inv, customer_code) ==
    SortByDateDescending(inv, {m \in DOMAIN inv :
                                  inv[m].customer.code = customer_code})

(***************************************************************************)
(* backup_database() and load().                                           *)
(***************************************************************************)
DB_FILENAME == "database.json"
MAX_BACKUPS == 5

\* chrono's %S: two digits
Pad2(n) == IF n < 10 THEN "0" \o ToString(n) ELSE ToString(n)

\* format!("{}.{}.bak", DB_FILENAME, Utc::now().format("%Y%m%d%H%M%S")) at
\* second now of one minute
BackupFilename(now) == "database.json.202401010000" \o Pad2(now) \o ".bak"

\* the beginning of a file, short of its end: what fs::copy has written into
\* the destination it created when it fails mid-way
Truncated(d) == [kind |-> "truncated", of |-> d]

\* the values of i in the loop over the excess backups at which a removal is
\* let fail: the first two, a load finding at most two excess backups when
\* no more than two earlier loads lost a removal
RemoveIndexes == 0..1

\* what happens to the backup of a document that is there: db_path.exists()
\* (FALSE when the file cannot be examined), fs::copy ("ok", "err": it fails
\* and leaves nothing, "partial": it fails after it has created the
\* destination), the listing of the directory ("ok", "err"), and the values
\* of i whose remove_file fails
Backup(exists, copy, read_dir, remove_err) ==
    [exists |-> exists, copy |-> copy, read_dir |-> read_dir, remove_err |-> remove_err]

BackupOk == Backup(TRUE, "ok", "ok", {})

BackupOutcomes ==
    {Backup(FALSE, "ok", "ok", {}), Backup(TRUE, "err", "ok", {}),
     Backup(TRUE, "partial", "ok", {}), Backup(TRUE, "ok", "err", {})}
    \cup {Backup(TRUE, "ok", "ok", failing) : failing \in SUBSET RemoveIndexes}

\* a variant that removes the newest backups
OldestBackupsReversed(names) ==
    IF Cardinality(names) > MAX_BACKUPS
    THEN {f \in names : Cardinality({g \in names : StrLess(g, f)}) >= MAX_BACKUPS}
    ELSE {}

\* if backups.len() > MAX_BACKUPS: backups[0 .. len - MAX_BACKUPS] of the
\* sorted names
OldestBackups(names) ==
    IF Cardinality(names) > MAX_BACKUPS
    THEN {f \in names : Cardinality({g \in names : StrLess(f, g)}) >= MAX_BACKUPS}
    ELSE {}

\* backups.sort(): the index of a name in the sorted names
SortedIndex(names, f) == Cardinality({g \in names : StrLess(g, f)})

\* the Result of backup_database: the ? on fs::copy and on fs::read_dir
BackupResult(d, outcome) ==
    IF d.kind = "absent" \/ ~outcome.exists THEN "Ok"
    ELSE IF outcome.copy # "ok" \/ outcome.read_dir # "ok" THEN "Io"
    ELSE "Ok"

\* a variant that gives the rotation up at the first removal that fails
BackupDatabaseAborting(d, files, now, outcome) ==
    IF d.kind = "absent" \/ ~outcome.exists \/ outcome.copy = "err" THEN files
    ELSE IF outcome.copy = "partial"
    THEN Insert(files, BackupFilename(now), Truncated(d))
    ELSE LET copied == Insert(files, BackupFilename(now), d)
         IN  IF outcome.read_dir = "err" \/ Cardinality(DOMAIN copied) <= MAX_BACKUPS
             THEN copied
             ELSE LET removed ==
                          {f \in OldestBackups(DOMAIN copied) :
                              \A i \in outcome.remove_err :
                                  SortedIndex(DOMAIN copied, f) < i}
                  IN  [f \in DOMAIN copied \ removed |-> copied[f]]

\* the backup files backup_database leaves: the ones there were when
\* db_path.exists() is false.  A copy that fails ends the call
\* before the rotation, with the destination not created or left partial
\* (an older backup of the same name is replaced by it); so does a listing
\* that fails, after the copy.  In the loop each remove_file fails or succeeds
\* by itself and the loop goes on.
BackupDatabase(d, files, now, outcome) ==
    IF d.kind = "absent" \/ ~outcome.exists \/ outcome.copy = "err" THEN files
    ELSE IF outcome.copy = "partial"
    THEN Insert(files, BackupFilename(now), Truncated(d))
    ELSE LET copied == Insert(files, BackupFilename(now), d)
         IN  IF outcome.read_dir = "err" \/ Cardinality(DOMAIN copied) <= MAX_BACKUPS
             THEN copied
             ELSE LET removed ==
                          {f \in OldestBackups(DOMAIN copied) :
                              SortedIndex(DOMAIN copied, f) \notin outcome.remove_err}
                  IN  [f \in DOMAIN copied \ removed |-> copied[f]]

\* File::open on a file that exists and the reading of it: the file opens
\* and is read ("ok"), it does not open ("err"), or it opens and a read of
\* it fails ("read_err")
OpenOutcomes == {"ok", "err", "read_err"}

\* a variant that substitutes a fresh aggregate for a document it cannot read
LoadLenient(d, open_outcome) ==
    [res |-> "Ok",
     db |-> IF d.kind = "document" /\ LoadResult(d) = "Ok"
            THEN LoadDatabase(d) ELSE NewDatabase]

\* the match on File::open: the Result of load() and, when it is Ok, the
\* aggregate in it.  An open that fails with another error than NotFound is
\* an Io error whether the file is there or not; the error of a read that
\* fails is the serde_json error of from_reader, a Serialization error
Load(d, open_outcome) ==
    IF open_outcome = "err" THEN [res |-> "Io", db |-> NewDatabase]
    ELSE IF d.kind = "absent" THEN [res |-> "Ok", db |-> NewDatabase]
    ELSE IF open_outcome = "read_err" THEN [res |-> "Serialization", db |-> NewDatabase]
    ELSE IF LoadResult(d) = "Ok" THEN [res |-> "Ok", db |-> LoadDatabase(d)]
    ELSE [res |-> LoadResult(d), db |-> NewDatabase]

(***************************************************************************)
(* KmattInvoiceApp (gui.rs): its construction and its drop.                *)
(***************************************************************************)
\* the fields KmattInvoiceApp::new sets, over the customers of its db: one
\* app per list get_customers_vec can return
NewApp(cu) ==
    {[customers |-> list,
     selected_customer_code |-> None,
     invoices_for_selected_customer |-> <<>>,
     selected_invoice_number |-> None,
     show_add_customer_window |-> FALSE,
     show_edit_customer_window |-> FALSE,
     edit_customer_state |-> [original_name |-> ""],
     show_create_invoice_window |-> FALSE,
     create_invoice_state |-> [customer_code |-> ""],
     show_delete_customer_confirm_window |-> FALSE,
     customer_to_delete_code |-> None,
     show_edit_invoice_window |-> FALSE,
     edit_invoice_state |-> [original_invoice_number |-> ""],
     show_delete_invoice_confirm_window |-> FALSE,
     invoice_to_delete_number |-> None] : list \in GetCustomersVec(cu)}

\* a process starts at second now: KmattInvoiceApp::new calls Database::load(),
\* which backs the document up and reads it, and takes Database::new() when
\* load() fails; the history starts again from what was read
New(now, backup_outcome, open_outcome) ==
    LET loaded == Load(disk, open_outcome)
        failed == disk.kind # "absent" /\ backup_outcome # BackupOk
    IN  /\ clock' = now
        /\ now >= clock
        /\ now <= MaxClock
        /\ backup_outcome \in BackupOutcomes
        /\ open_outcome \in OpenOutcomes
        /\ disk.kind # "absent" => Len(loads) < MaxLoads
        /\ backup_failures' = IF failed THEN backup_failures + 1 ELSE backup_failures
        /\ loads' = IF disk.kind # "absent" THEN Append(loads, now) ELSE loads
        /\ ret' = [op |-> "load", res |-> loaded.res,
                   val |-> BackupResult(disk, backup_outcome)]
        /\ backups' = BackupDatabase(disk, backups, now, backup_outcome)
        /\ company' = loaded.db.company
        /\ customers' = loaded.db.customers
        /\ invoices' = loaded.db.invoices
        /\ last_invoice_nums' = loaded.db.last_invoice_nums
        /\ app' \in NewApp(loaded.db.customers)
        /\ created_for' = [n \in DOMAIN loaded.db.invoices |->
                               loaded.db.invoices[n].customer.name]
        /\ issued' = [c \in DOMAIN loaded.db.customers |->
                          {[code |-> loaded.db.invoices[n].customer.code, num |-> n] :
                              n \in {m \in DOMAIN loaded.db.invoices :
                                         loaded.db.invoices[m].customer.name = c}}]
        /\ UNCHANGED <<disk, save_failures, calls, pdf_files>>

\* impl Drop for KmattInvoiceApp: self.db.save(), an error only printed
Drop(outcome) ==
    /\ outcome \in SaveOutcomes
    /\ outcome # "ok" => save_failures < MaxSaveFailures
    /\ disk' = SaveDisk(outcome, disk,
                        Serialize(company, customers, invoices, last_invoice_nums))
    /\ save_failures' = IF outcome = "ok" THEN save_failures ELSE save_failures + 1
    /\ ret' = [op |-> "drop", res |-> SaveError(outcome), val |-> ""]
    /\ UNCHANGED <<company, customers, invoices, last_invoice_nums, created_for,
                   issued, calls, app, backups, clock, pdf_files, loads,
                   backup_failures>>

(***************************************************************************)
(* generate_pdf_gui and generate_pdf.  The two do not fit: generate_pdf of *)
(* pdf_generator.rs takes no file name and returns nothing (it creates     *)
(* invoice_<number>.pdf in the working directory and unwraps the creation  *)
(* of the file and the writing of the document, so a failure of either is  *)
(* a panic), while generate_pdf_gui passes it the file name and applies ?  *)
(* to what it returns, as to a function that writes the document to that   *)
(* file and returns its failure.  No build of the two exists, so a call    *)
(* takes either course.                                                    *)
(***************************************************************************)
PdfOutcomes == {"ok", "create_err", "write_err"}

\* the file generate_pdf of pdf_generator.rs leaves: none when File::create
\* fails, otherwise invoice_<number>.pdf (whole, or what was written before
\* the failure)
GeneratePdf(files, invoice, outcome) ==
    IF outcome = "create_err" THEN files
    ELSE files \cup {"invoice_" \o invoice.invoice_number \o ".pdf"}

\* the file the generate_pdf that generate_pdf_gui calls leaves: the Generated
\* PDF is written to the caller-specified file path
GeneratePdfTo(files, filename, outcome) ==
    IF outcome = "create_err" THEN files ELSE files \cup {filename}

\* the document after a PDF was written to filename: File::create truncates
\* the file at the path of the document, and what is written is no JSON
PdfOverDocument(d, filename, outcome) ==
    IF filename = DB_FILENAME /\ outcome # "create_err" THEN Malformed ELSE d

GeneratePdfGui(invoice_number, filename, outcome) ==
    /\ outcome \in PdfOutcomes
    /\ IF invoice_number \in DOMAIN invoices
       THEN \/ /\ pdf_files' = GeneratePdf(pdf_files, invoices[invoice_number], outcome)
               /\ disk' = disk
               /\ ret' = IF outcome = "ok"
                         THEN [op |-> "generate_pdf_gui", res |-> "Ok", val |-> filename]
                         ELSE [op |-> "generate_pdf_gui", res |-> "Panic", val |-> ""]
            \/ /\ pdf_files' = GeneratePdfTo(pdf_files, filename, outcome)
               /\ disk' = PdfOverDocument(disk, filename, outcome)
               /\ ret' = IF outcome = "ok"
                         THEN [op |-> "generate_pdf_gui", res |-> "Ok", val |-> filename]
                         ELSE [op |-> "generate_pdf_gui", res |-> "PdfGeneration",
                               val |-> ""]
       ELSE /\ pdf_files' = pdf_files
            /\ disk' = disk
            /\ ret' = [op |-> "generate_pdf_gui", res |-> "InvoiceNotFound", val |-> ""]
    /\ UNCHANGED <<company, customers, invoices, last_invoice_nums,
                   created_for, issued, save_failures, calls>>

(***************************************************************************)
(* The handlers of the GUI (gui.rs): the clicks in the panels and the      *)
(* menus, and the buttons of the dialogs.  A form arrives as the record    *)
(* of its fields.                                                          *)
(***************************************************************************)
\* a click that calls no record operation: the store and the files stay
Clicked(op) ==
    /\ ret' = [op |-> op, res |-> "Ok", val |-> ""]
    /\ UNCHANGED <<company, customers, invoices, last_invoice_nums, disk, created_for,
                   issued, save_failures, calls, pdf_files, backups, clock, loads,
                   backup_failures>>

\* self.customers.iter().find(|c| c.code == *code)
FindByCode(list, code) ==
    LET found == {i \in DOMAIN list : list[i].code = code}
    IN  IF found = {} THEN None
        ELSE Some(list[CHOOSE i \in found : \A j \in found : i <= j])

\* the apps update_invoice_list can leave, one per order of the list
UpdateInvoiceList(a, inv) ==
    IF a.selected_customer_code = None
    THEN {[a EXCEPT !.invoices_for_selected_customer = <<>>,
                    !.selected_invoice_number = None]}
    ELSE {[a EXCEPT !.invoices_for_selected_customer = list,
                    !.selected_invoice_number = None] :
            list \in GetInvoicesForCustomer(inv, a.selected_customer_code[1])}

GetSelectedCustomerName(a) ==
    IF a.selected_customer_code = None THEN None
    ELSE LET found == FindByCode(a.customers, a.selected_customer_code[1])
         IN  IF found = None THEN None ELSE Some(found[1].name)

\* how many dialogs are shown
Dialogs(a) ==
    Cardinality({w \in {"add_customer", "edit_customer", "delete_customer",
                        "create_invoice", "edit_invoice", "delete_invoice"} :
        \/ w = "add_customer" /\ a.show_add_customer_window
        \/ w = "edit_customer" /\ a.show_edit_customer_window
        \/ w = "delete_customer" /\ a.show_delete_customer_confirm_window
        \/ w = "create_invoice" /\ a.show_create_invoice_window
        \/ w = "edit_invoice" /\ a.show_edit_invoice_window
        \/ w = "delete_invoice" /\ a.show_delete_invoice_confirm_window})

\* the customer a customer form is read into: every field trimmed, the code
\* in upper case
FormCustomer(form) ==
    [name |-> Trim(form.name),
     address |-> Trim(form.address),
     phone |-> Trim(form.phone),
     contact_person |-> Trim(form.contact_person),
     contact_phone |-> Trim(form.contact_phone),
     email |-> Trim(form.email),
     code |-> ToUppercase(Trim(form.code))]

\* a button that finds its form wrong: the message is shown in the dialog
\* and nothing else changes
Refused(op, message) ==
    /\ ret' = [op |-> op, res |-> "Form", val |-> message]
    /\ UNCHANGED <<company, customers, invoices, last_invoice_nums, disk, created_for,
                   issued, save_failures, calls, app, pdf_files, backups, clock, loads,
                   backup_failures>>

\* what is wrong with a typed item: the quantity is to parse as a u32 above
\* 0, the rate as an f64 that is >= 0.0, and the description is to hold
\* more than blanks
ItemError(item) ==
    IF item.quantity <= 0 THEN "Invalid quantity. Must be a positive integer."
    ELSE IF ~(\/ item.rate.cls = "finite" /\ item.rate.v >= 0
              \/ item.rate = PosInf)
    THEN "Invalid rate. Must be a non-negative number."
    ELSE IF Trim(item.description) = "" THEN "Item description cannot be empty."
    ELSE ""

\* the message of the loop over the items, which breaks at the first item
\* that is wrong, or of the due date that is no date; "" for a valid form
FormError(form) ==
    LET wrong == {i \in DOMAIN form.items : ItemError(form.items[i]) # ""}
    IN  IF wrong # {}
        THEN ItemError(form.items[CHOOSE i \in wrong : \A j \in wrong : i <= j])
        ELSE IF form.due = None THEN "Invalid due date format. Use YYYY-MM-DD."
        ELSE ""

\* the items an invoice form is read into: amount 0.0
FormItems(items) ==
    [i \in DOMAIN items |->
        InvoiceItem(Trim(items[i].description), items[i].quantity, items[i].rate, F64(0))]

\* left panel: a customer of the list is clicked
ClickCustomer(code) ==
    /\ \E i \in DOMAIN app.customers : app.customers[i].code = code
    /\ app' \in UpdateInvoiceList([app EXCEPT !.selected_customer_code = Some(code)],
                                  invoices)
    /\ Clicked("select_customer")

\* central panel, shown when the selected customer is in the list: the
\* number of a listed invoice is clicked
ClickInvoice(number) ==
    /\ GetSelectedCustomerName(app) # None
    /\ \E i \in DOMAIN app.invoices_for_selected_customer :
          app.invoices_for_selected_customer[i].invoice_number = number
    /\ app' = [app EXCEPT !.selected_invoice_number = Some(number)]
    /\ Clicked("select_invoice")

\* menu Customer, Add New Customer
MenuAddCustomer ==
    /\ app' = [app EXCEPT !.show_add_customer_window = TRUE]
    /\ Clicked("menu_add_customer")

\* the Save Customer button of the add customer dialog
AddCustomerWindow(form, outcome) ==
    /\ app.show_add_customer_window
    /\ AddCustomerGui(FormCustomer(form), outcome)
    /\ IF ret'.res = "Ok"
       THEN \E list \in GetCustomersVec(customers') :
               app' = [app EXCEPT !.customers = list,
                                  !.show_add_customer_window = FALSE]
       ELSE app' = app
    /\ UNCHANGED <<pdf_files, backups, clock, loads, backup_failures>>

\* menu Customer, Edit Selected Customer
MenuEditCustomer ==
    /\ app.selected_customer_code # None
    /\ LET found == FindByCode(app.customers, app.selected_customer_code[1])
       IN  app' = IF found = None THEN app
                  ELSE [app EXCEPT !.edit_customer_state =
                                       [original_name |-> found[1].name],
                                   !.show_edit_customer_window = TRUE]
    /\ Clicked("menu_edit_customer")

\* the Save Changes button of the edit customer dialog
EditCustomerWindow(form, outcome) ==
    /\ app.show_edit_customer_window
    /\ LET original_name == app.edit_customer_state.original_name
           updated_customer == FormCustomer(form)
           Closed(a) == [a EXCEPT !.edit_customer_state = [original_name |-> ""],
                                  !.show_edit_customer_window = FALSE]
       IN  /\ EditCustomerGui(original_name, updated_customer, outcome)
           /\ IF ret'.res = "Ok"
              THEN \E list \in GetCustomersVec(customers') :
                     LET listed == [app EXCEPT !.customers = list]
                     IN  IF Some(original_name) = GetSelectedCustomerName(listed)
                         THEN \E a \in UpdateInvoiceList(
                                          [listed EXCEPT !.selected_customer_code =
                                                             Some(updated_customer.code)],
                                          invoices') :
                                 app' = Closed(a)
                         ELSE app' = Closed(listed)
              ELSE app' = app
    /\ UNCHANGED <<pdf_files, backups, clock, loads, backup_failures>>

\* menu Customer, Delete Selected Customer
MenuDeleteCustomer ==
    /\ app.selected_customer_code # None
    /\ app' = [app EXCEPT !.customer_to_delete_code = app.selected_customer_code,
                          !.show_delete_customer_confirm_window = TRUE]
    /\ Clicked("menu_delete_customer")

\* the Yes button of the delete customer dialog
DeleteCustomerConfirmWindow(outcome) ==
    /\ app.show_delete_customer_confirm_window
    /\ app.customer_to_delete_code # None
    /\ DeleteCustomerGui(app.customer_to_delete_code[1], outcome)
    /\ LET taken == [app EXCEPT !.customer_to_delete_code = None,
                                !.show_delete_customer_confirm_window = FALSE]
       IN  IF ret'.res = "Ok"
           THEN \E list \in GetCustomersVec(customers') :
                   app' = [taken EXCEPT !.selected_customer_code = None,
                                        !.invoices_for_selected_customer = <<>>,
                                        !.customers = list]
           ELSE app' = taken
    /\ UNCHANGED <<pdf_files, backups, clock, loads, backup_failures>>

\* menu Invoice, Create New Invoice
MenuCreateInvoice ==
    /\ app.selected_customer_code # None
    /\ LET found == FindByCode(app.customers, app.selected_customer_code[1])
       IN  app' = IF found = None THEN app
                  ELSE [app EXCEPT !.create_invoice_state =
                                       [customer_code |-> found[1].code],
                                   !.show_create_invoice_window = TRUE]
    /\ Clicked("menu_create_invoice")

\* the Create Invoice button of the create invoice dialog
CreateInvoiceWindow(form, today, outcome) ==
    /\ app.show_create_invoice_window
    /\ IF FormError(form) # ""
       THEN Refused("create_invoice_window", FormError(form))
       ELSE /\ CreateInvoiceGui(app.create_invoice_state.customer_code,
                                FormItems(form.items), Trim(form.notes), form.due[1],
                                today, outcome)
            /\ IF ret'.res = "Ok"
               THEN \E a \in UpdateInvoiceList(app, invoices') :
                       app' = [a EXCEPT !.create_invoice_state = [customer_code |-> ""],
                                        !.show_create_invoice_window = FALSE]
               ELSE app' = app
            /\ UNCHANGED <<pdf_files, backups, clock, loads, backup_failures>>

\* menu File, Save Database: the Result of save() goes to the status line
MenuSaveDatabase(outcome) ==
    /\ UNCHANGED <<company, customers, invoices, last_invoice_nums, created_for,
                   issued, app, pdf_files, backups, clock, loads, backup_failures>>
    /\ Save(outcome, "save", "")

\* menu Invoice, Edit Selected Invoice: enabled by the invoice selection; the
\* dialog opens when the selected number is in the list
MenuEditInvoice ==
    /\ app.selected_invoice_number # None
    /\ app' = IF \E i \in DOMAIN app.invoices_for_selected_customer :
                     app.invoices_for_selected_customer[i].invoice_number =
                         app.selected_invoice_number[1]
              THEN [app EXCEPT !.edit_invoice_state =
                                   [original_invoice_number |->
                                        app.selected_invoice_number[1]],
                               !.show_edit_invoice_window = TRUE]
              ELSE app
    /\ Clicked("menu_edit_invoice")

\* the Edit button in the row of a listed invoice
ButtonEditInvoice(number) ==
    /\ GetSelectedCustomerName(app) # None
    /\ \E i \in DOMAIN app.invoices_for_selected_customer :
          app.invoices_for_selected_customer[i].invoice_number = number
    /\ app' = [app EXCEPT !.edit_invoice_state = [original_invoice_number |-> number],
                          !.show_edit_invoice_window = TRUE]
    /\ Clicked("button_edit_invoice")

\* the Save Changes button of the edit invoice dialog
EditInvoiceWindow(form, paid, outcome) ==
    /\ app.show_edit_invoice_window
    /\ IF FormError(form) # ""
       THEN Refused("edit_invoice_window", FormError(form))
       ELSE /\ EditInvoiceGui(app.edit_invoice_state.original_invoice_number,
                              FormItems(form.items), Trim(form.notes), form.due[1],
                              paid, outcome)
            /\ IF ret'.res = "Ok"
               THEN \E a \in UpdateInvoiceList(app, invoices') :
                       app' = [a EXCEPT !.edit_invoice_state =
                                            [original_invoice_number |-> ""],
                                        !.show_edit_invoice_window = FALSE]
               ELSE app' = app
            /\ UNCHANGED <<pdf_files, backups, clock, loads, backup_failures>>

\* the Delete button in the row of a listed invoice
ButtonDeleteInvoice(number) ==
    /\ GetSelectedCustomerName(app) # None
    /\ \E i \in DOMAIN app.invoices_for_selected_customer :
          app.invoices_for_selected_customer[i].invoice_number = number
    /\ app' = [app EXCEPT !.invoice_to_delete_number = Some(number),
                          !.show_delete_invoice_confirm_window = TRUE]
    /\ Clicked("button_delete_invoice")

\* menu Invoice, Delete Selected Invoice
MenuDeleteInvoice ==
    /\ app.selected_invoice_number # None
    /\ app' = [app EXCEPT !.invoice_to_delete_number = app.selected_invoice_number,
                          !.show_delete_invoice_confirm_window = TRUE]
    /\ Clicked("menu_delete_invoice")

\* the Yes button of the delete invoice dialog
DeleteInvoiceConfirmWindow(outcome) ==
    /\ app.show_delete_invoice_confirm_window
    /\ app.invoice_to_delete_number # None
    /\ DeleteInvoiceGui(app.invoice_to_delete_number[1], outcome)
    /\ LET taken == [app EXCEPT !.invoice_to_delete_number = None,
                                !.show_delete_invoice_confirm_window = FALSE]
       IN  IF ret'.res = "Ok"
           THEN app' \in UpdateInvoiceList(
                             [taken EXCEPT !.selected_invoice_number = None], invoices')
           ELSE app' = taken
    /\ UNCHANGED <<pdf_files, backups, clock, loads, backup_failures>>

\* the Mark Paid button of a listed invoice that is shown as unpaid
ButtonMarkPaid(number, outcome) ==
    /\ GetSelectedCustomerName(app) # None
    /\ \E i \in DOMAIN app.invoices_for_selected_customer :
          /\ app.invoices_for_selected_customer[i].invoice_number = number
          /\ ~app.invoices_for_selected_customer[i].paid
    /\ MarkInvoicePaidGui(number, outcome)
    /\ IF ret'.res = "Ok"
       THEN app' \in UpdateInvoiceList(app, invoices')
       ELSE app' = app
    /\ UNCHANGED <<pdf_files, backups, clock, loads, backup_failures>>

\* the PDF button of a listed invoice, with the path the file dialog gave,
\* or none when the dialog was cancelled
ButtonPdf(number, path, outcome) ==
    /\ GetSelectedCustomerName(app) # None
    /\ \E i \in DOMAIN app.invoices_for_selected_customer :
          app.invoices_for_selected_customer[i].invoice_number = number
    /\ IF path = None
       THEN app' = app /\ Clicked("button_pdf")
       ELSE /\ GeneratePdfGui(number, path[1], outcome)
            /\ UNCHANGED <<app, backups, clock, loads, backup_failures>>

\* the Cancel button of a dialog that is shown
Cancel(window) ==
    /\ \/ /\ window = "add_customer"
          /\ app.show_add_customer_window
          /\ app' = [app EXCEPT !.show_add_customer_window = FALSE]
       \/ /\ window = "edit_customer"
          /\ app.show_edit_customer_window
          /\ app' = [app EXCEPT !.show_edit_customer_window = FALSE,
                                !.edit_customer_state = [original_name |-> ""]]
       \/ /\ window = "delete_customer"
          /\ app.show_delete_customer_confirm_window
          /\ app' = [app EXCEPT !.show_delete_customer_confirm_window = FALSE,
                                !.customer_to_delete_code = None]
       \/ /\ window = "create_invoice"
          /\ app.show_create_invoice_window
          /\ app' = [app EXCEPT !.show_create_invoice_window = FALSE,
                                !.create_invoice_state = [customer_code |-> ""]]
       \/ /\ window = "edit_invoice"
          /\ app.show_edit_invoice_window
          /\ app' = [app EXCEPT !.show_edit_invoice_window = FALSE,
                                !.edit_invoice_state = [original_invoice_number |-> ""]]
       \/ /\ window = "delete_invoice"
          /\ app.show_delete_invoice_confirm_window
          /\ app' = [app EXCEPT !.show_delete_invoice_confirm_window = FALSE,
                                !.invoice_to_delete_number = None]
    /\ Clicked("cancel")

(***************************************************************************)
(* The console program (main.rs): its own Database over the same document. *)
(* A prompt that asks again until the line is acceptable is an operation   *)
(* whose line is acceptable; save() unwraps, so a failed save is a panic.  *)
(***************************************************************************)
\* a variant that reports what it cannot read
MainLoadStrict(d, open_outcome) == Load(d, open_outcome)

\* Database::load of main.rs: Database::new() when File::open or
\* serde_json::from_reader fails
MainLoad(d, open_outcome) ==
    [res |-> "Ok",
     db |-> IF d.kind = "document" /\ open_outcome = "ok" /\ LoadResult(d) = "Ok"
            THEN LoadDatabase(d) ELSE NewDatabase]

\* let mut db = Database::load() at the start of main
MainStart(open_outcome) ==
    LET loaded == MainLoad(disk, open_outcome)
    IN  /\ open_outcome \in OpenOutcomes
        /\ company' = loaded.db.company
        /\ customers' = loaded.db.customers
        /\ invoices' = loaded.db.invoices
        /\ last_invoice_nums' = loaded.db.last_invoice_nums
        /\ ret' = [op |-> "load", res |-> loaded.res, val |-> ""]
        /\ UNCHANGED <<disk, created_for, issued, save_failures, calls>>

\* self.save() of main.rs: both the opening and the writing are unwrapped
MainSave(outcome, op, val) ==
    /\ outcome \in SaveOutcomes
    /\ outcome # "ok" => save_failures < MaxSaveFailures
    /\ calls < MaxCalls
    /\ calls' = calls + 1
    /\ disk' = SaveDisk(outcome, disk,
                        Serialize(company', customers', invoices', last_invoice_nums'))
    /\ save_failures' = IF outcome = "ok" THEN save_failures ELSE save_failures + 1
    /\ ret' = IF outcome = "ok" THEN [op |-> op, res |-> "Ok", val |-> val]
              ELSE [op |-> op, res |-> "Panic", val |-> ""]

\* a println! and return on a path that has not changed anything
MainRefused(op, msg) ==
    /\ ret' = [op |-> op, res |-> msg, val |-> ""]
    /\ UNCHANGED <<company, customers, invoices, last_invoice_nums, disk,
                   save_failures, calls>>

\* add_customer: name is the accepted name line, code_line the accepted code
\* line; the other fields are accepted lines too
MainAddCustomer(name, code_line, outcome) ==
    /\ name = Trim(name) /\ name # ""
    /\ ValidCode(ToUppercase(Trim(code_line)))
    /\ IF name \in DOMAIN customers
       THEN MainRefused("add_customer", "Customer already exists!")
       ELSE LET code == ToUppercase(Trim(code_line))
                customer == [Customer(name, "1 Main St", code) EXCEPT
                                !.phone = "5", !.contact_person = "Kim",
                                !.contact_phone = "6", !.email = "k@x"]
            IN  /\ customers' = Insert(customers, name, customer)
                /\ last_invoice_nums' = Insert(last_invoice_nums, code, SeedValue)
                /\ UNCHANGED <<company, invoices>>
                /\ MainSave(outcome, "add_customer", name)
    /\ UNCHANGED <<created_for, issued>>

\* read_optional_customer_code: the line in upper case when it is 2-3
\* letters, otherwise the default
ReadOptionalCustomerCode(line, default) ==
    LET input == ToUppercase(Trim(line))
    IN  IF input # "" /\ ValidCode(input) THEN input ELSE default

\* edit_customer: the record is rebuilt with the name that was typed, which
\* is its key; every other field but the code is left as it is (blank lines)
MainEditCustomer(name, code_line, outcome) ==
    /\ name = Trim(name) /\ name # ""
    /\ IF name \in DOMAIN customers
       THEN /\ customers' = [customers EXCEPT
                                ![name].name = name,
                                ![name].code =
                                    ReadOptionalCustomerCode(code_line,
                                                             customers[name].code)]
            /\ UNCHANGED <<company, invoices, last_invoice_nums>>
            /\ MainSave(outcome, "edit_customer", name)
       ELSE MainRefused("edit_customer", "Customer not found!")
    /\ UNCHANGED <<created_for, issued>>

\* remove_customer
MainRemoveCustomer(name, outcome) ==
    /\ name = Trim(name) /\ name # ""
    /\ IF name \in DOMAIN customers
       THEN /\ customers' = Remove(customers, name)
            /\ last_invoice_nums' = Remove(last_invoice_nums, customers[name].code)
            /\ UNCHANGED <<company, invoices>>
            /\ MainSave(outcome, "remove_customer", name)
       ELSE MainRefused("remove_customer", "Customer not found!")
    /\ UNCHANGED <<created_for, issued>>

\* {:03}
Pad3(n) ==
    IF n < 10 THEN "00" \o ToString(n)
    ELSE IF n < 100 THEN "0" \o ToString(n) ELSE ToString(n)

\* generate_invoice_number: entry().and_modify(|n| *n += 1).or_insert(75)
GenerateInvoiceNumber(nums, customer_code) ==
    LET num == IF customer_code \in DOMAIN nums THEN nums[customer_code] + 1
               ELSE SeedValue
    IN  [nums |-> Insert(nums, customer_code, num),
         number |-> customer_code \o Pad3(num)]

\* create_invoice for the customer chosen from the list, with the items
\* entered, an accepted due date (after today) and no notes; the conversion
\* of the due date is unwrapped before anything is changed
MainCreateInvoice(name, items, due_date_naive, today, outcome) ==
    /\ name \in DOMAIN customers
    /\ due_date_naive > today
    /\ UNCHANGED <<created_for, issued>>
    /\ IF ~HasSingle(FromLocalDatetime(due_date_naive))
       THEN MainRefused("create_invoice", "Panic") /\ ret'.res = "Panic"
       ELSE LET gen == GenerateInvoiceNumber(last_invoice_nums, customers[name].code)
                invoice ==
                    [invoice_number |-> gen.number,
                     date |-> Now(today),
                     due_date |-> Single(FromLocalDatetime(due_date_naive)),
                     customer |-> customers[name],
                     items |-> CalculateItems(items),
                     subtotal |-> Subtotal(CalculateItems(items)),
                     total |-> Subtotal(CalculateItems(items)),
                     notes |-> "",
                     paid |-> FALSE]
            IN  /\ last_invoice_nums' = gen.nums
                /\ invoices' = Insert(invoices, gen.number, invoice)
                /\ UNCHANGED <<company, customers>>
                /\ MainSave(outcome, "create_invoice", gen.number)

\* mark_paid
MainMarkPaid(num, outcome) ==
    /\ IF num \in DOMAIN invoices
       THEN /\ invoices' = [invoices EXCEPT ![num].paid = TRUE]
            /\ UNCHANGED <<company, customers, last_invoice_nums>>
            /\ MainSave(outcome, "mark_paid", num)
       ELSE MainRefused("mark_paid", "Invoice not found!")
    /\ UNCHANGED <<created_for, issued>>

\* delete_invoice
MainDeleteInvoice(num, outcome) ==
    /\ IF num \in DOMAIN invoices
       THEN /\ invoices' = Remove(invoices, num)
            /\ UNCHANGED <<company, customers, last_invoice_nums>>
            /\ MainSave(outcome, "delete_invoice", num)
       ELSE MainRefused("delete_invoice", "Invoice not found!")
    /\ UNCHANGED <<created_for, issued>>

\* generate_pdf: invoice_<number>.pdf is written; File::create and doc.save
\* are unwrapped
MainGeneratePdf(num, outcome) ==
    /\ outcome \in PdfOutcomes
    /\ IF num \in DOMAIN invoices
       THEN /\ pdf_files' = GeneratePdf(pdf_files, invoices[num], outcome)
            /\ ret' = IF outcome = "ok"
                      THEN [op |-> "generate_pdf", res |-> "Ok", val |-> num]
                      ELSE [op |-> "generate_pdf", res |-> "Panic", val |-> ""]
            /\ UNCHANGED <<company, customers, invoices, last_invoice_nums, disk,
                           save_failures, calls>>
       ELSE /\ pdf_files' = pdf_files
            /\ MainRefused("generate_pdf", "Invoice not found!")
    /\ UNCHANGED <<created_for, issued>>

\* option 11, Exit: db.save() and the loop ends
MainExit(outcome) ==
    /\ UNCHANGED <<company, customers, invoices, last_invoice_nums, created_for, issued>>
    /\ MainSave(outcome, "exit", "")

(***************************************************************************)
(* The inputs the operations are driven with.                              *)
(***************************************************************************)
RawNames == {"Acme", " Bolt ", " "}
RawCodes == {"AB", " cd", "A1"}
Addresses == {"1 Main St"}
CustomerInputs ==
    {Customer(n, a, c) : n \in RawNames, a \in Addresses, c \in RawCodes}

StoredNames == {"Acme", "Bolt", "Nobody"}
StoredCodes == {"AB", "CD", "ZZ"}
UnknownInvoice == "ZZ99"

Items1 == <<InvoiceItem("clean", 3, F64(10), F64(0)),
            InvoiceItem("wash", 1, F64(5), F64(7))>>
Items2 == <<InvoiceItem("mow", 2, F64(7), F64(99))>>

\* items, notes and due date as one form submission
InvoiceInputs ==
    { [items |-> Items1, notes |-> "thanks", due |-> 1],
      [items |-> <<>>, notes |-> "thanks", due |-> 1],
      [items |-> Items2, notes |-> "", due |-> 2] }

Days == {1}

(***************************************************************************)
(* The specification: the store starts as Database::new() with no          *)
(* document on disk, and the record operations are called in any order.    *)
(***************************************************************************)
NoCall == [op |-> "none", res |-> "none", val |-> ""]

Init ==
    /\ company = NewCompany
    /\ customers = EmptyMap
    /\ invoices = EmptyMap
    /\ last_invoice_nums = EmptyMap
    /\ disk = NoFile
    /\ ret = NoCall
    /\ created_for = EmptyMap
    /\ issued = EmptyMap
    /\ save_failures = 0
    /\ calls = 0
    /\ app \in NewApp(EmptyMap)
    /\ backups = EmptyMap
    /\ clock = ClockStart
    /\ pdf_files = {}
    /\ loads = <<>>
    /\ backup_failures = 0

SpecOutcomes == {"ok"}

AddCustomer ==
    \E c \in CustomerInputs, o \in SpecOutcomes : AddCustomerGui(c, o)
        /\ UNCHANGED others

EditCustomer ==
    \E n \in StoredNames, c \in CustomerInputs, o \in SpecOutcomes :
        EditCustomerGui(n, c, o)
        /\ UNCHANGED others

DeleteCustomer ==
    \E c \in StoredCodes, o \in SpecOutcomes : DeleteCustomerGui(c, o)
        /\ UNCHANGED others

CreateInvoice ==
    \E c \in StoredCodes, i \in InvoiceInputs, d \in Days, o \in SpecOutcomes :
        CreateInvoiceGui(c, i.items, i.notes, i.due, d, o)
        /\ UNCHANGED others

EditInvoice ==
    \E n \in DOMAIN invoices \cup {UnknownInvoice}, i \in InvoiceInputs,
       p \in BOOLEAN, o \in SpecOutcomes :
        EditInvoiceGui(n, i.items, i.notes, i.due, p, o)
        /\ UNCHANGED others

DeleteInvoice ==
    \E n \in DOMAIN invoices \cup {UnknownInvoice}, o \in SpecOutcomes :
        DeleteInvoiceGui(n, o)
        /\ UNCHANGED others

MarkInvoicePaid ==
    \E n \in DOMAIN invoices \cup {UnknownInvoice}, o \in SpecOutcomes :
        MarkInvoicePaidGui(n, o)
        /\ UNCHANGED others

Next ==
    \/ AddCustomer
    \/ EditCustomer
    \/ DeleteCustomer
    \/ CreateInvoice
    \/ EditInvoice
    \/ DeleteInvoice
    \/ MarkInvoicePaid

Spec == Init /\ [][Next]_vars

(***************************************************************************)
(* The same operations with save() allowed to fail, driven with one        *)
(* customer name so that the document on disk can fall behind the          *)
(* aggregate.                                                              *)
(***************************************************************************)
IoCustomerInputs == {Customer("Acme", a, c) : a \in Addresses, c \in {"AB", " cd"}}
IoNames == {"Acme"}
IoCodes == {"AB", "CD"}
IoInvoiceInputs == {i \in InvoiceInputs : i.items # <<>>}

IoAddCustomer ==
    \E c \in IoCustomerInputs, o \in SaveOutcomes : AddCustomerGui(c, o)
        /\ UNCHANGED others

IoEditCustomer ==
    \E n \in IoNames, c \in IoCustomerInputs, o \in SaveOutcomes :
        EditCustomerGui(n, c, o)
        /\ UNCHANGED others

IoDeleteCustomer ==
    \E c \in IoCodes, o \in SaveOutcomes : DeleteCustomerGui(c, o)
        /\ UNCHANGED others

IoCreateInvoice ==
    \E c \in IoCodes, i \in IoInvoiceInputs, d \in Days, o \in SaveOutcomes :
        CreateInvoiceGui(c, i.items, i.notes, i.due, d, o)
        /\ UNCHANGED others

IoEditInvoice ==
    \E n \in DOMAIN invoices, i \in IoInvoiceInputs, p \in BOOLEAN,
       o \in SaveOutcomes :
        EditInvoiceGui(n, i.items, i.notes, i.due, p, o)
        /\ UNCHANGED others

IoDeleteInvoice ==
    \E n \in DOMAIN invoices \cup {UnknownInvoice}, o \in SaveOutcomes :
        DeleteInvoiceGui(n, o)
        /\ UNCHANGED others

IoMarkInvoicePaid ==
    \E n \in DOMAIN invoices, o \in SaveOutcomes : MarkInvoicePaidGui(n, o)
        /\ UNCHANGED others

NextIo ==
    \/ IoAddCustomer
    \/ IoEditCustomer
    \/ IoDeleteCustomer
    \/ IoCreateInvoice
    \/ IoEditInvoice
    \/ IoDeleteInvoice
    \/ IoMarkInvoicePaid

SpecIo == Init /\ [][NextIo]_vars

(***************************************************************************)
(* The customer and invoice forms driven with what they accept: every      *)
(* field of a customer can change, a rate is any f64 that is >= 0.0 (a     *)
(* product can overflow, and "inf" parses), and a due date is any date.    *)
(***************************************************************************)
InvNames == {"Acme", "Bolt"}
InvCodes == {"AB", "CD"}
InvCustomerInputs ==
    { Customer("Acme", "1 Main St", "AB"),
      Customer("Acme", "2 Side Rd", "AB"),
      Customer("Bolt", "1 Main St", "CD") }

ItemsHuge == <<InvoiceItem("hire", 2, F64(F64Max), F64(0)),
               InvoiceItem("gold", 1, PosInf, F64(5))>>

InvInvoiceInputs ==
    { [items |-> Items1, notes |-> "thanks", due |-> 3],
      [items |-> ItemsHuge, notes |-> "", due |-> 3],
      [items |-> <<>>, notes |-> "thanks", due |-> 3],
      [items |-> Items2, notes |-> "", due |-> 4] }

InvAddCustomer ==
    \E c \in InvCustomerInputs, o \in SpecOutcomes : AddCustomerGui(c, o)
        /\ UNCHANGED others

InvEditCustomer ==
    \E n \in InvNames, c \in InvCustomerInputs, o \in SpecOutcomes :
        EditCustomerGui(n, c, o)
        /\ UNCHANGED others

InvCreateInvoice ==
    \E c \in InvCodes, i \in InvInvoiceInputs, d \in Days, o \in SpecOutcomes :
        CreateInvoiceGui(c, i.items, i.notes, i.due, d, o)
        /\ UNCHANGED others

InvEditInvoice ==
    \E n \in DOMAIN invoices \cup {UnknownInvoice}, i \in InvInvoiceInputs,
       p \in BOOLEAN, o \in SpecOutcomes :
        EditInvoiceGui(n, i.items, i.notes, i.due, p, o)
        /\ UNCHANGED others

InvMarkInvoicePaid ==
    \E n \in DOMAIN invoices \cup {UnknownInvoice}, o \in SpecOutcomes :
        MarkInvoicePaidGui(n, o)
        /\ UNCHANGED others

NextInv ==
    \/ InvAddCustomer
    \/ InvEditCustomer
    \/ InvCreateInvoice
    \/ InvEditInvoice
    \/ InvMarkInvoicePaid

SpecInv == Init /\ [][NextInv]_vars

(***************************************************************************)
(* The customer operations alone, driven with well-formed names and codes  *)
(* in several spellings: here a refusal is always about a name or a code   *)
(* that is already taken.                                                  *)
(***************************************************************************)
CustRawNames == {"Acme", " Bolt "}
CustRawCodes == {"AB", " ab", "CD"}
CustAddresses == {"1 Main St", "2 Side Rd"}
CustCustomerInputs ==
    {Customer(n, a, c) : n \in CustRawNames, a \in CustAddresses, c \in CustRawCodes}

CustAddCustomer ==
    \E c \in CustCustomerInputs, o \in SpecOutcomes : AddCustomerGui(c, o)
        /\ UNCHANGED others

CustEditCustomer ==
    \E n \in StoredNames, c \in CustCustomerInputs, o \in SpecOutcomes :
        EditCustomerGui(n, c, o)
        /\ UNCHANGED others

CustDeleteCustomer ==
    \E c \in StoredCodes, o \in SpecOutcomes : DeleteCustomerGui(c, o)
        /\ UNCHANGED others

NextCust ==
    \/ CustAddCustomer
    \/ CustEditCustomer
    \/ CustDeleteCustomer

SpecCust == Init /\ [][NextCust]_vars

(***************************************************************************)
(* Starting and leaving the application: processes start one after the     *)
(* other over a document that is absent, malformed, or was written by an   *)
(* earlier run; a process either ends through its drop or is killed.       *)
(***************************************************************************)
SampleInvoice(items) ==
    LET calculated_items == CalculateItems(items)
    IN  [invoice_number |-> "AB76",
         date |-> Now(1),
         due_date |-> Single(FromLocalDatetime(3)),
         customer |-> Customer("Acme", "1 Main St", "AB"),
         items |-> calculated_items,
         subtotal |-> Subtotal(calculated_items),
         total |-> Subtotal(calculated_items),
         notes |-> "",
         paid |-> FALSE]

\* what save() writes after add_customer_gui and create_invoice_gui
SampleDocument(items) ==
    Serialize(NewCompany,
              Insert(EmptyMap, "Acme", Customer("Acme", "1 Main St", "AB")),
              Insert(EmptyMap, "AB76", SampleInvoice(items)),
              Insert(EmptyMap, "AB", 76))

LoadDocuments ==
    {NoFile, Malformed, SampleDocument(Items1), SampleDocument(ItemsHuge)}

InitLoad ==
    /\ company = NewCompany
    /\ customers = EmptyMap
    /\ invoices = EmptyMap
    /\ last_invoice_nums = EmptyMap
    /\ disk \in LoadDocuments
    /\ ret = NoCall
    /\ created_for = EmptyMap
    /\ issued = EmptyMap
    /\ save_failures = 0
    /\ calls = 0
    /\ app \in NewApp(EmptyMap)
    /\ backups = EmptyMap
    /\ clock = ClockStart
    /\ pdf_files = {}
    /\ loads = <<>>
    /\ backup_failures = 0

\* a process starts in the second the last one started in, or in the next
LoadNew ==
    \E now \in {clock, clock + 1}, b \in BackupOutcomes :
        /\ disk.kind # "absent" /\ b # BackupOk => backup_failures < MaxBackupFailures
        /\ New(now, b, "ok")

\* the running process ends and its save succeeds
LoadDrop ==
    ret.op = "load" /\ Drop("ok")

NextLoad ==
    \/ LoadNew
    \/ LoadDrop

SpecLoad == InitLoad /\ [][NextLoad]_vars

(***************************************************************************)
(* The rotation specification: processes start one after the other, each  *)
(* in a later second than the one before, over a document of any kind,     *)
(* and the backup step fails in any of its ways, more than once.           *)
(***************************************************************************)
NextBackup ==
    \E now \in {clock, clock + 1}, b \in BackupOutcomes, o \in OpenOutcomes :
        /\ loads # <<>> => now > loads[Len(loads)]
        /\ disk.kind # "absent" /\ b # BackupOk => backup_failures < MaxRotationFailures
        /\ New(now, b, o)

SpecBackup == InitLoad /\ [][NextBackup]_vars

(***************************************************************************)
(* The GUI specification: the window is open over the store of Init, and   *)
(* its panels, menus and dialogs are used in any order.  The forms hold    *)
(* what a user types, blanks and lower case included; a save can fail.     *)
(***************************************************************************)
GuiCustomerForms ==
    {[name |-> n, address |-> "1 Main St", phone |-> " 5", contact_person |-> "Kim ",
      contact_phone |-> "", email |-> " k", code |-> c] :
        n \in {"Acme", " Bolt "}, c \in {"AB", " cd"}}
GuiInvoiceForm == [items |-> Items1, notes |-> " thanks ", due |-> Some(1)]
\* forms that are wrong: a quantity of 0, a negative rate, a rate that is no
\* number, a description of blanks, a due date that is no date
GuiWrongForms ==
    {[GuiInvoiceForm EXCEPT !.items[1].quantity = 0],
     [GuiInvoiceForm EXCEPT !.items[1].rate = F64(-1)],
     [GuiInvoiceForm EXCEPT !.items[1].rate = NaN],
     [GuiInvoiceForm EXCEPT !.items[1].description = "  "],
     [GuiInvoiceForm EXCEPT !.due = None]}
GuiNumbers == {"AB76", "AB77", "CD76", "CD77"}

\* a dialog calls its record operation while the bound on the calls allows,
\* and a menu or a button opens its dialog while the bound on the dialogs
\* shown allows
NextGui ==
    \/ calls < MaxGuiCalls /\ \E o \in {"ok", "open_err"} : MenuSaveDatabase(o)
    \/ \E c \in {"AB", "CD"} : ClickCustomer(c)
    \/ \E n \in GuiNumbers : ClickInvoice(n)
    \/ MenuAddCustomer /\ Dialogs(app') <= MaxDialogs
    \/ calls < MaxGuiCalls
          /\ \E f \in GuiCustomerForms, o \in {"ok", "open_err"} : AddCustomerWindow(f, o)
    \/ MenuEditCustomer /\ Dialogs(app') <= MaxDialogs
    \/ calls < MaxGuiCalls
          /\ \E f \in GuiCustomerForms, o \in {"ok", "open_err"} : EditCustomerWindow(f, o)
    \/ MenuDeleteCustomer /\ Dialogs(app') <= MaxDialogs
    \/ calls < MaxGuiCalls
          /\ \E o \in {"ok", "open_err"} : DeleteCustomerConfirmWindow(o)
    \/ MenuCreateInvoice /\ Dialogs(app') <= MaxDialogs
    \/ calls < MaxGuiCalls
          /\ \E t \in {1, 2}, o \in {"ok", "open_err"} :
                CreateInvoiceWindow(GuiInvoiceForm, t, o)
    \/ \E f \in GuiWrongForms : CreateInvoiceWindow(f, 1, "ok")
    \/ MenuEditInvoice /\ Dialogs(app') <= MaxDialogs
    \/ \E n \in GuiNumbers : ButtonEditInvoice(n) /\ Dialogs(app') <= MaxDialogs
    \/ calls < MaxGuiCalls
          /\ \E p \in BOOLEAN, o \in {"ok", "open_err"} :
                EditInvoiceWindow(GuiInvoiceForm, p, o)
    \/ \E f \in GuiWrongForms : EditInvoiceWindow(f, FALSE, "ok")
    \/ MenuDeleteInvoice /\ Dialogs(app') <= MaxDialogs
    \/ \E n \in GuiNumbers : ButtonDeleteInvoice(n) /\ Dialogs(app') <= MaxDialogs
    \/ calls < MaxGuiCalls
          /\ \E o \in {"ok", "open_err"} : DeleteInvoiceConfirmWindow(o)
    \/ calls < MaxGuiCalls
          /\ \E n \in GuiNumbers, o \in {"ok", "open_err"} : ButtonMarkPaid(n, o)
    \/ \E w \in {"add_customer", "edit_customer", "delete_customer", "create_invoice",
                  "edit_invoice", "delete_invoice"} : Cancel(w)

SpecGui == Init /\ [][NextGui]_vars

(***************************************************************************)
(* The query specification: the GUI starts on a document that holds a      *)
(* customer and an invoice, customers are added and invoices created, the  *)
(* database is saved from the menu, and the lists and the PDF button are   *)
(* used in between.  Nothing runs after a panic.                           *)
(***************************************************************************)
QueryDocument ==
    Serialize(NewCompany,
              Insert(Insert(EmptyMap, "Acme", Customer("Acme", "1 Main St", "AB")),
                     "Bolt", Customer("Bolt", "1 Main St", "CD")),
              Insert(Insert(EmptyMap, "AB76", SampleInvoice(Items1)),
                     "CD76", [SampleInvoice(Items1) EXCEPT
                                  !.invoice_number = "CD76",
                                  !.customer = Customer("Bolt", "1 Main St", "CD")]),
              Insert(Insert(EmptyMap, "AB", 76), "CD", 76))
\* the customer form typed: a third customer, whose name sorts between the two
QueryCustomerForms ==
    {[f EXCEPT !.name = " Ajax ", !.code = "ef"] : f \in GuiCustomerForms}
\* the paths the file dialog gives: a new file, or the document itself
PdfPaths == {"out.pdf", DB_FILENAME}

InitQuery ==
    /\ company = NewCompany
    /\ customers = EmptyMap
    /\ invoices = EmptyMap
    /\ last_invoice_nums = EmptyMap
    /\ disk = QueryDocument
    /\ ret = NoCall
    /\ created_for = EmptyMap
    /\ issued = EmptyMap
    /\ save_failures = 0
    /\ calls = 0
    /\ app \in NewApp(EmptyMap)
    /\ backups = EmptyMap
    /\ clock = ClockStart
    /\ pdf_files = {}
    /\ loads = <<>>
    /\ backup_failures = 0

Running == ret.op # "none" /\ ret.res # "Panic"

NextQuery ==
    \/ ret.op = "none" /\ New(clock, BackupOk, "ok")
    \/ Running /\ calls < MaxQueryCalls /\ MenuSaveDatabase("ok")
    \/ Running /\ \E c \in {"AB", "CD"} : ClickCustomer(c)
    \/ Running /\ MenuAddCustomer
    \/ Running /\ calls < MaxQueryCalls
          /\ \E f \in QueryCustomerForms : AddCustomerWindow(f, "ok")
    \/ Running /\ Cancel("add_customer")
    \/ Running /\ MenuCreateInvoice
    \/ Running /\ calls < MaxQueryCalls
          /\ \E o \in {"ok", "open_err"} : CreateInvoiceWindow(GuiInvoiceForm, 2, o)
    \/ Running
          /\ \E f \in PdfPaths \cup {""}, o \in PdfOutcomes :
                ButtonPdf("AB76", IF f = "" THEN None ELSE Some(f), o)

SpecQuery == InitQuery /\ [][NextQuery]_vars

(***************************************************************************)
(* The lifetime specification: a process starts, loading the document, its *)
(* window is used to add customers, and it ends, saving on the way out;    *)
(* then the next process starts, in a later second, or the process is      *)
(* killed and the next one starts.  Nothing is done to the store between   *)
(* the end of one process and the start of the next.                       *)
(***************************************************************************)
NextLife ==
    \/ \E b \in {BackupOk, Backup(TRUE, "partial", "ok", {})} :
          /\ disk.kind # "absent" /\ b # BackupOk => backup_failures < MaxBackupFailures
          /\ New(clock + 1, b, "ok")
    \/ ret.op \notin {"none", "drop"} /\ MenuAddCustomer
    \/ ret.op \notin {"none", "drop"} /\ calls < MaxGuiCalls
          /\ \E f \in GuiCustomerForms, o \in {"ok", "open_err"} : AddCustomerWindow(f, o)
    \/ ret.op \notin {"none", "drop"} /\ \E o \in {"ok", "open_err"} : Drop(o)

SpecLife == InitLoad /\ [][NextLife]_vars

(***************************************************************************)
(* The console specification: main loads the document, whatever it is, and *)
(* the menu is used in any order until Exit or a panic ends the process;   *)
(* then main is started again, on the document that is there.              *)
(***************************************************************************)
MainRunning == ret.op \notin {"none", "exit"} /\ ret.res # "Panic"

NextMain ==
    \/ ~MainRunning /\ UNCHANGED others
          /\ \E o \in OpenOutcomes : MainStart(o)
    \/ MainRunning /\ calls < MaxMainCalls /\ UNCHANGED others
          /\ \E n \in {"Acme", "Bolt"}, c \in {"ab", "CD"}, o \in {"ok", "open_err"} :
                MainAddCustomer(n, c, o)
    \/ MainRunning /\ calls < MaxMainCalls /\ UNCHANGED others
          /\ \E n \in {"Acme", "Bolt"}, c \in {"", "cd", "EF", "x1"} :
                MainEditCustomer(n, c, "ok")
    \/ MainRunning /\ calls < MaxMainCalls /\ UNCHANGED others
          /\ \E n \in {"Acme", "Bolt"} : MainRemoveCustomer(n, "ok")
    \/ MainRunning /\ calls < MaxMainCalls /\ UNCHANGED others
          /\ \E n \in DOMAIN customers, d \in {2, 3} :
                MainCreateInvoice(n, Items1, d, 1, "ok")
    \/ MainRunning /\ calls < MaxMainCalls /\ UNCHANGED others
          /\ \E n \in DOMAIN invoices \cup {UnknownInvoice} : MainMarkPaid(n, "ok")
    \/ MainRunning /\ calls < MaxMainCalls /\ UNCHANGED others
          /\ \E n \in DOMAIN invoices \cup {UnknownInvoice} : MainDeleteInvoice(n, "ok")
    \/ MainRunning /\ UNCHANGED <<app, backups, clock, loads, backup_failures>>
          /\ \E n \in {"AB076", UnknownInvoice}, o \in PdfOutcomes :
                MainGeneratePdf(n, o)
    \/ MainRunning /\ calls < MaxMainCalls /\ UNCHANGED others
          /\ \E o \in SaveOutcomes : MainExit(o)

SpecMain == InitLoad /\ [][NextMain]_vars

(***************************************************************************)
(* Properties.                                                             *)
(***************************************************************************)
Document == Serialize(company, customers, invoices, last_invoice_nums)
ValidationErrors == {"InvalidInput", "CustomerExists", "CustomerNotFound",
                     "InvoiceNotFound"}
SaveErrors == {"Io", "Serialization"}

\* C1: a successful Create Invoice returns a number that keys no invoice of
\* the registry, so it never replaces an existing invoice.
C1_CreateNeverReplaces ==
    [][(ret'.op = "create_invoice_gui" /\ ret'.res = "Ok")
          => \A c \in StoredCodes, i \in InvoiceInputs, d \in Days :
                CreateInvoiceGui(c, i.items, i.notes, i.due, d, "ok")
                => ret'.val \notin DOMAIN invoices]_vars

\* C2: while every invoice issued to a customer since it was added was issued
\* under its present code (the counter was seeded at 75 and never moved past
\* another code's invoices), the N numbers issued are <code>76 .. <code>(75+N).
C2_SequentialNumbers ==
    \A name \in DOMAIN customers :
        LET c == customers[name].code IN
        (\A e \in issued[name] : e.code = c)
        => {e.num : e \in issued[name]}
           = {c \o ToString(SeedValue + k) : k \in 1..Cardinality(issued[name])}

\* C3: a call that returns a validation error leaves customers, invoices and
\* sequence counters as they were.
C3_ValidationErrorsChangeNothing ==
    [][ret'.res \in ValidationErrors
          => UNCHANGED <<company, customers, invoices, last_invoice_nums>>]_vars

\* C4: no two customers of the registry share a name, and no two share a code.
C4_UniqueNameAndCode ==
    \A n1, n2 \in DOMAIN customers :
        n1 # n2 => /\ customers[n1].name # customers[n2].name
                   /\ customers[n1].code # customers[n2].code

\* two customers are registered and a call has just been refused
C4_Witness ==
    /\ Cardinality(DOMAIN customers) = 2
    /\ ret.op \in {"add_customer_gui", "edit_customer_gui"}
    /\ ret.res \in {"InvalidInput", "CustomerExists"}

\* C5: a successful Edit Customer that changes the code from c1 to c2 leaves
\* c2 with the count c1 had (75 if it had none), leaves c1 without a counter
\* and every other counter as it was; and no number issued to a customer under
\* one code equals a number issued to it under another.
C5_CounterMigratedOnce ==
    [][/\ (ret'.op = "edit_customer_gui" /\ ret'.res = "Ok")
          => \A n \in DOMAIN customers, u \in CustomerInputs :
                (/\ customers[n].code # NormalizeCode(u.code)
                 /\ EditCustomerGui(n, u, "ok"))
                => LET c1 == customers[n].code
                       c2 == NormalizeCode(u.code)
                   IN  /\ DOMAIN last_invoice_nums'
                            = (DOMAIN last_invoice_nums \ {c1}) \cup {c2}
                       /\ last_invoice_nums'[c2] =
                            IF c1 \in DOMAIN last_invoice_nums
                            THEN last_invoice_nums[c1] ELSE SeedValue
                       /\ \A k \in DOMAIN last_invoice_nums \ {c1, c2} :
                            last_invoice_nums'[k] = last_invoice_nums[k]
       /\ \A name \in DOMAIN issued' : \A e1, e2 \in issued'[name] :
            e1.code # e2.code => e1.num # e2.num]_vars

\* a customer holds numbers issued under two codes, the later one continuing
\* the count of the earlier
C5_Witness ==
    \E name \in DOMAIN customers : \E e1, e2 \in issued[name] :
        /\ e1.code # e2.code
        /\ e2.code = customers[name].code
        /\ last_invoice_nums[e2.code] = SeedValue + 2

\* C6: a successful Delete Customer(code) removes the customer with that code,
\* that code's counter and the invoices whose embedded customer has that code,
\* and nothing else.
C6_DeleteCustomerFrame ==
    [][\A code \in StoredCodes :
          (ret'.op = "delete_customer_gui" /\ ret'.res = "Ok"
              /\ DeleteCustomerGui(code, "ok"))
          => /\ customers' = [n \in {k \in DOMAIN customers :
                                      customers[k].code # code} |-> customers[n]]
             /\ last_invoice_nums' = [k \in DOMAIN last_invoice_nums \ {code} |->
                                          last_invoice_nums[k]]
             /\ invoices' = [n \in {k \in DOMAIN invoices :
                                      invoices[k].customer.code # code} |-> invoices[n]]
             /\ company' = company]_vars

\* a customer was deleted while another customer and an invoice stay behind
C6_Witness ==
    /\ ret.op = "delete_customer_gui"
    /\ ret.res = "Ok"
    /\ DOMAIN customers # {}
    /\ DOMAIN invoices # {}
    /\ calls = MaxCalls

\* C7: no invoice created for a customer that has been deleted remains.
C7_NoInvoiceOfDeletedCustomer ==
    \A n \in DOMAIN invoices : created_for[n] # Gone

\* C8: Delete Customer neither removes nor changes an invoice created for
\* another customer.
C8_OtherInvoicesUntouched ==
    [][\A code \in StoredCodes :
          (ret'.op = "delete_customer_gui" /\ ret'.res = "Ok"
              /\ DeleteCustomerGui(code, "ok"))
          => \A n \in DOMAIN invoices :
                (\E other \in DOMAIN customers :
                    /\ created_for[n] = other
                    /\ customers[other].code # code)
                => (n \in DOMAIN invoices' /\ invoices'[n] = invoices[n])]_vars

\* C9: when a record operation returns success the document on disk is the
\* in-memory aggregate.
C9_FlushedOnSuccess ==
    ret.res = "Ok" => disk = Document

\* Delete Invoice has returned success with a customer still registered
C9_Witness ==
    /\ ret.op = "delete_invoice_gui"
    /\ ret.res = "Ok"
    /\ DOMAIN customers # {}
    /\ disk = Document

\* C10: a failed save() makes the call return Io or Serialization while the
\* aggregate keeps the change (the added customer, the created invoice), and
\* the next call that returns success leaves the document equal to the
\* aggregate.
C10_FailureWindow ==
    [][/\ save_failures' > save_failures
          => (ret'.res \in SaveErrors /\ calls' = calls + 1)
       /\ \A c \in IoCustomerInputs, o \in SaveOutcomes \ {"ok"} :
            (ret'.res \in SaveErrors /\ AddCustomerGui(c, o))
            => /\ Trim(c.name) \in DOMAIN customers' \ DOMAIN customers
               /\ customers'[Trim(c.name)].code = NormalizeCode(c.code)
       /\ \A c \in IoCodes, i \in IoInvoiceInputs, d \in Days,
             o \in SaveOutcomes \ {"ok"} :
            (ret'.res \in SaveErrors
                /\ CreateInvoiceGui(c, i.items, i.notes, i.due, d, o))
            => \E n \in DOMAIN invoices' :
                  /\ invoices'[n].invoice_number = c \o ToString(last_invoice_nums'[c])
                  /\ last_invoice_nums'[c] = last_invoice_nums[c] + 1
       /\ (disk # Document /\ ret'.res = "Ok") => disk' = Document'
      ]_vars

\* a save has failed, and a later call has returned success and written the
\* aggregate out
C10_Witness ==
    /\ save_failures > 0
    /\ ret.res = "Ok"
    /\ DOMAIN customers # {}
    /\ disk = Document

\* the sum of the amounts of a list of items
RECURSIVE SumAmounts(_)
SumAmounts(items) ==
    IF items = <<>> THEN F64(0)
    ELSE F64Add(SumAmounts(SubSeq(items, 1, Len(items) - 1)),
                items[Len(items)].amount)

\* C11: in every invoice of the registry each item's amount equals its
\* quantity times its rate, whatever amount the caller supplied, and the
\* subtotal and the total both equal the sum of the item amounts.
C11_AmountsComputed ==
    \A n \in DOMAIN invoices :
        LET invoice == invoices[n] IN
        /\ \A i \in DOMAIN invoice.items :
              F64Eq(invoice.items[i].amount,
                    F64Mul(invoice.items[i].quantity, invoice.items[i].rate))
        /\ F64Eq(invoice.subtotal, SumAmounts(invoice.items))
        /\ F64Eq(invoice.total, SumAmounts(invoice.items))

\* Edit Invoice has stored items that came in with the amounts 0 and 7 as 30
\* and 5, with subtotal 35, next to an invoice whose product overflowed
C11_Witness ==
    /\ ret.op = "edit_invoice_gui"
    /\ ret.res = "Ok"
    /\ \E n \in DOMAIN invoices :
          /\ Len(invoices[n].items) = 2
          /\ invoices[n].items[1].amount = F64(30)
          /\ invoices[n].items[2].amount = F64(5)
          /\ invoices[n].subtotal = F64(35)
    /\ \E n \in DOMAIN invoices : invoices[n].total = PosInf

\* C12: Create Invoice and Edit Invoice with an empty item list fail, with
\* InvalidInput when the customer or the invoice is registered, and leave the
\* invoice registry and the sequence counters as they were; every invoice of the
\* registry has at least one item.
C12_EmptyItemsRefused ==
    [][/\ ret'.op = "create_invoice_gui"
          => \A c \in InvCodes, i \in InvInvoiceInputs, d \in Days :
                (i.items = <<>> /\ CreateInvoiceGui(c, i.items, i.notes, i.due, d, "ok"))
                => /\ ret'.res = IF CodeInUse(customers, c)
                                 THEN "InvalidInput" ELSE "CustomerNotFound"
                   /\ UNCHANGED <<invoices, last_invoice_nums>>
       /\ ret'.op = "edit_invoice_gui"
          => \A n \in DOMAIN invoices \cup {UnknownInvoice}, i \in InvInvoiceInputs,
                p \in BOOLEAN :
                (i.items = <<>> /\ EditInvoiceGui(n, i.items, i.notes, i.due, p, "ok"))
                => /\ ret'.res = IF n \in DOMAIN invoices
                                 THEN "InvalidInput" ELSE "InvoiceNotFound"
                   /\ UNCHANGED <<invoices, last_invoice_nums>>
       /\ \A n \in DOMAIN invoices' : Len(invoices'[n].items) >= 1]_vars

\* Edit Invoice has just been refused with two invoices in the registry
C12_Witness ==
    /\ ret.op = "edit_invoice_gui"
    /\ ret.res = "InvalidInput"
    /\ Cardinality(DOMAIN invoices) = 2
    /\ \A n \in DOMAIN invoices : Len(invoices[n].items) >= 1

\* C13: the customer embedded in an invoice is the registry's record at the
\* time of Create Invoice, and no later Edit Customer, Edit Invoice or Mark
\* Invoice Paid changes the customer embedded in an existing invoice.
C13_CustomerSnapshot ==
    [][/\ (ret'.op = "create_invoice_gui" /\ ret'.res = "Ok")
          => /\ ret'.val \in DOMAIN invoices'
             /\ \E name \in DOMAIN customers :
                   invoices'[ret'.val].customer = customers[name]
       /\ ret'.op \in {"edit_customer_gui", "edit_invoice_gui", "mark_invoice_paid_gui"}
          => \A n \in DOMAIN invoices :
                /\ n \in DOMAIN invoices'
                /\ invoices'[n].customer = invoices[n].customer]_vars

\* an invoice has been edited after its customer changed name, address and
\* code, and still embeds the customer as it was
C13_Witness ==
    /\ ret.op = "edit_invoice_gui"
    /\ ret.res = "Ok"
    /\ \E n \in DOMAIN invoices :
          /\ created_for[n] \in DOMAIN customers
          /\ invoices[n].customer.name # customers[created_for[n]].name
          /\ invoices[n].customer.code # customers[created_for[n]].code
          /\ invoices[n].customer.address # customers[created_for[n]].address

\* C14: a successful Edit Invoice gives the named invoice the submitted notes,
\* due date and paid flag and the recomputed items, subtotal and total, and
\* leaves its number, its registry key, its issue date and its embedded
\* customer, every other invoice, all customers, the company and all sequence
\* counters as they were.
C14_EditInvoiceFrame ==
    [][(ret'.op = "edit_invoice_gui" /\ ret'.res = "Ok")
          => \A n \in DOMAIN invoices, i \in InvInvoiceInputs, p \in BOOLEAN :
                EditInvoiceGui(n, i.items, i.notes, i.due, p, "ok")
                => /\ DOMAIN invoices' = DOMAIN invoices
                   /\ invoices'[n].invoice_number = invoices[n].invoice_number
                   /\ invoices'[n].date = invoices[n].date
                   /\ invoices'[n].customer = invoices[n].customer
                   /\ invoices'[n].notes = i.notes
                   /\ invoices'[n].paid = p
                   /\ invoices'[n].due_date.day = i.due
                   /\ Len(invoices'[n].items) = Len(i.items)
                   /\ \A m \in DOMAIN invoices \ {n} : invoices'[m] = invoices[m]
                   /\ UNCHANGED <<company, customers, last_invoice_nums>>]_vars

\* an invoice has been edited into a paid one with other notes, items and
\* due date than it was created with, next to another invoice
C14_Witness ==
    /\ ret.op = "edit_invoice_gui"
    /\ ret.res = "Ok"
    /\ Cardinality(DOMAIN invoices) = 2
    /\ \E n \in DOMAIN invoices :
          /\ invoices[n].paid
          /\ invoices[n].notes = ""
          /\ invoices[n].items = CalculateItems(ItemsHuge)
          /\ invoices[n].date # invoices[n].due_date

\* C15: Add Customer of a new customer whose code, trimmed and uppercased, is
\* the code of a registered customer fails with InvalidInput and leaves the
\* customers and the sequence counters as they were (when the name is itself
\* registered the refusal is CustomerExists, with the same frame).
C15_AddCodeInUse ==
    [][ret'.op = "add_customer_gui"
          => \A c \in CustCustomerInputs :
                (/\ \E n \in DOMAIN customers :
                        /\ customers[n].code = NormalizeCode(c.code)
                        /\ customers[n].name # Trim(c.name)
                 /\ AddCustomerGui(c, "ok"))
                => /\ ret'.res = IF Trim(c.name) \in DOMAIN customers
                                 THEN "CustomerExists" ELSE "InvalidInput"
                   /\ UNCHANGED <<customers, last_invoice_nums, invoices>>]_vars

\* Add Customer has been refused with InvalidInput, which with well-formed
\* names and codes is the refusal of a code in use, after two calls left one
\* customer holding the code CD
C15_Witness ==
    /\ ret.op = "add_customer_gui"
    /\ ret.res = "InvalidInput"
    /\ Cardinality(DOMAIN customers) = 1
    /\ \E n \in DOMAIN customers : customers[n].code = "CD"
    /\ calls >= 2

\* C16: Add Customer with a name that, trimmed, already keys a customer fails
\* with CustomerExists and leaves that customer's record and every sequence
\* counter as they were.
C16_AddNameExists ==
    [][ret'.op = "add_customer_gui"
          => \A c \in CustCustomerInputs :
                (Trim(c.name) \in DOMAIN customers /\ AddCustomerGui(c, "ok"))
                => /\ ret'.res = "CustomerExists"
                   /\ Trim(c.name) \in DOMAIN customers'
                   /\ customers'[Trim(c.name)] = customers[Trim(c.name)]
                   /\ UNCHANGED <<customers, last_invoice_nums>>]_vars

\* Add Customer has been refused with CustomerExists while Bolt is registered
\* at its second address
C16_Witness ==
    /\ ret.op = "add_customer_gui"
    /\ ret.res = "CustomerExists"
    /\ "Bolt" \in DOMAIN customers
    /\ customers["Bolt"].address = "2 Side Rd"
    /\ customers["Bolt"].code = "AB"

\* C17: Add Customer reports the first check that fails in the order: empty
\* trimmed name (InvalidInput), malformed code (InvalidInput), registered name
\* (CustomerExists), code in use (InvalidInput); so a malformed code gives
\* InvalidInput for every non-empty name.
C17_AddCheckOrder ==
    [][ret'.op = "add_customer_gui"
          => \A c \in CustomerInputs :
                AddCustomerGui(c, "ok")
                => ret'.res =
                     IF Trim(c.name) = "" THEN "InvalidInput"
                     ELSE IF ~ValidCode(NormalizeCode(c.code)) THEN "InvalidInput"
                     ELSE IF Trim(c.name) \in DOMAIN customers THEN "CustomerExists"
                     ELSE IF \E n \in DOMAIN customers :
                                customers[n].code = NormalizeCode(c.code)
                     THEN "InvalidInput"
                     ELSE "Ok"]_vars

\* C18: Edit Customer (with a well-formed new name and code) fails with
\* CustomerNotFound when original_name keys no customer, else with
\* CustomerExists when the new name differs from the original and keys a
\* customer, else with InvalidInput when the new code differs from the
\* original's and is the code of another customer; a refusal leaves the
\* customers as they were; on success the entry under original_name is gone
\* unless the name is kept, exactly one customer has the new name, and the
\* number of customers is unchanged.
C18_EditCustomerOutcome ==
    [][ret'.op = "edit_customer_gui"
          => \A n \in StoredNames, u \in CustCustomerInputs :
                EditCustomerGui(n, u, "ok")
                => LET new_name == Trim(u.name)
                       new_code == NormalizeCode(u.code)
                       found == n \in DOMAIN customers
                       name_taken == new_name # n /\ new_name \in DOMAIN customers
                       code_taken ==
                           /\ customers[n].code # new_code
                           /\ \E m \in DOMAIN customers \ {n} :
                                 customers[m].code = new_code
                   IN  /\ ret'.res =
                             IF ~found THEN "CustomerNotFound"
                             ELSE IF name_taken THEN "CustomerExists"
                             ELSE IF code_taken THEN "InvalidInput"
                             ELSE "Ok"
                       /\ ret'.res # "Ok" => customers' = customers
                       /\ ret'.res = "Ok"
                             => /\ new_name # n => n \notin DOMAIN customers'
                                /\ Cardinality({k \in DOMAIN customers' :
                                       customers'[k].name = new_name}) = 1
                                /\ new_name \in DOMAIN customers'
                                /\ customers'[new_name].code = new_code
                                /\ Cardinality(DOMAIN customers')
                                      = Cardinality(DOMAIN customers)]_vars

\* an edit has succeeded as the third call, leaving Acme and Bolt registered
\* with Bolt at its second address under the code AB
C18_Witness ==
    /\ ret.op = "edit_customer_gui"
    /\ ret.res = "Ok"
    /\ DOMAIN customers = {"Acme", "Bolt"}
    /\ customers["Bolt"].address = "2 Side Rd"
    /\ customers["Bolt"].code = "AB"
    /\ calls = 3

\* C19: Mark Invoice Paid fails with InvoiceNotFound, changing nothing, when
\* the number is not registered; otherwise it succeeds, the invoice is paid and
\* equal to what it was in every other field, and the other invoices, the
\* customers, the company and the counters are as they were; applied to an
\* invoice that is already paid it leaves the aggregate (and a document that
\* was up to date) as it is, so that twice is the same as once.
C19_MarkPaid ==
    [][ret'.op = "mark_invoice_paid_gui"
          => \A n \in DOMAIN invoices \cup {UnknownInvoice} :
                MarkInvoicePaidGui(n, "ok")
                => IF n \notin DOMAIN invoices
                   THEN /\ ret'.res = "InvoiceNotFound"
                        /\ UNCHANGED <<company, customers, invoices, last_invoice_nums>>
                   ELSE /\ ret'.res = "Ok"
                        /\ DOMAIN invoices' = DOMAIN invoices
                        /\ invoices'[n].paid = TRUE
                        /\ [invoices'[n] EXCEPT !.paid = invoices[n].paid] = invoices[n]
                        /\ \A m \in DOMAIN invoices \ {n} : invoices'[m] = invoices[m]
                        /\ UNCHANGED <<company, customers, last_invoice_nums>>
                        /\ invoices[n].paid
                              => /\ UNCHANGED invoices
                                 /\ disk = Document => UNCHANGED disk]_vars

\* an invoice has been marked paid next to one that is still unpaid
C19_Witness ==
    /\ ret.op = "mark_invoice_paid_gui"
    /\ ret.res = "Ok"
    /\ \E n, m \in DOMAIN invoices : invoices[n].paid /\ ~invoices[m].paid

\* C20: after a record operation has returned success, and so saved the
\* aggregate, load() succeeds and returns the same company, customers, invoices
\* and sequence counters.
C20_RoundTrip ==
    ret.res = "Ok"
    => /\ LoadResult(disk) = "Ok"
       /\ LoadDatabase(disk) =
             [company |-> company, customers |-> customers, invoices |-> invoices,
              last_invoice_nums |-> last_invoice_nums]

\* the aggregate in memory
Aggregate ==
    [company |-> company, customers |-> customers, invoices |-> invoices,
     last_invoice_nums |-> last_invoice_nums]

\* C21, as stated: load() on an absent document returns Ok with a fresh
\* aggregate (default company, empty registries and counters); on a document
\* that is there but malformed it returns a Serialization error; both
\* whatever the backup step did before (nothing, a backup, a failure).
C21_LoadAbsentOrMalformed ==
    [][ret'.op = "load" /\ disk.kind \in {"absent", "malformed"} =>
        \A b \in BackupOutcomes, o \in OpenOutcomes :
            New(clock', b, o) =>
                /\ disk.kind = "absent" =>
                        ret'.res = "Ok" /\ Aggregate' = NewDatabase
                /\ disk.kind = "malformed" => ret'.res = "Serialization"]_vars

\* C21, amended: load() returns an Io error when the open fails with another
\* error than NotFound, the document being there or not; otherwise, on an
\* absent document it returns Ok with a fresh aggregate and on a malformed
\* one a Serialization error; a malformed document never gives Ok; all this
\* whatever the backup step did before.
C21_LoadAbsentOrMalformedOpened ==
    [][ret'.op = "load" /\ disk.kind \in {"absent", "malformed"} =>
        /\ disk.kind = "malformed" => ret'.res \in {"Serialization", "Io"}
        /\ \A b \in BackupOutcomes, o \in OpenOutcomes :
              \/ IF o = "err" THEN ret'.res = "Io"
                 ELSE IF disk.kind = "absent"
                 THEN ret'.res = "Ok" /\ Aggregate' = NewDatabase
                 ELSE ret'.res = "Serialization"
              \/ ~New(clock', b, o)]_vars

\* a load of a malformed document has failed with a Serialization error
\* after its backup step had failed too
C21_Witness ==
    /\ ret.op = "load"
    /\ ret.res = "Serialization"
    /\ ret.val = "Io"
    /\ disk.kind = "malformed"
    /\ backups = EmptyMap

\* C22 as stated: with no backup file at the start and no failure of the
\* backup step, after k loads that found the document there are exactly
\* min(k, 5) backup files, the ones of the most recent loads (after 7 loads,
\* the 5 of the last 5 loads).
C22_BackupRetention ==
    backup_failures = 0 =>
        LET k == Len(loads)
            kept == IF k < MAX_BACKUPS THEN k ELSE MAX_BACKUPS
        IN  /\ Cardinality(DOMAIN backups) = kept
            /\ DOMAIN backups = {BackupFilename(loads[i]) : i \in (k - kept + 1)..k}

\* C22, amended: the same when every load starts in a later second than the
\* load before it, so that no two backups have one name.
C22_BackupRetentionDistinctSeconds ==
    (\A i \in 1..(Len(loads) - 1) : loads[i] < loads[i + 1]) =>
        C22_BackupRetention

\* seven loads in seven seconds have left the five backups of the last five
C22_Witness ==
    /\ Len(loads) = 7
    /\ \A i \in 1..6 : loads[i] < loads[i + 1]
    /\ backup_failures = 0
    /\ Cardinality(DOMAIN backups) = MAX_BACKUPS
    /\ BackupFilename(loads[2]) \notin DOMAIN backups
    /\ BackupFilename(loads[3]) \in DOMAIN backups

\* C30: when the application is started and left with no record operation
\* in between (and no I/O failure: the document could be opened and the save
\* of the drop succeeded), the document holds what it held before: an
\* absent document has become the document of a fresh aggregate, and a
\* document that was there, well-formed or not, is as it was.
C30_StartExitPreserves ==
    [][ret.op = "load" /\ ret.res # "Io" /\ ret'.op = "drop" /\ ret'.res = "Ok" =>
        IF disk.kind = "absent"
        THEN disk' = Serialize(NewDatabase.company, NewDatabase.customers,
                               NewDatabase.invoices, NewDatabase.last_invoice_nums)
        ELSE disk' = disk]_vars

\* C25: the codes that have a sequence counter are the codes of the
\* customers in the registry, and every counter is at least 75.
C25_CountersMatchCustomers ==
    /\ DOMAIN last_invoice_nums = {customers[n].code : n \in DOMAIN customers}
    /\ \A c \in DOMAIN last_invoice_nums : last_invoice_nums[c] >= SeedValue

\* a customer has just been deleted while another one, whose counter has
\* moved past the seed, stays
C25_Witness ==
    /\ ret.op = "delete_customer_gui"
    /\ ret.res = "Ok"
    /\ Cardinality(DOMAIN customers) = 1
    /\ \E c \in DOMAIN last_invoice_nums : last_invoice_nums[c] > SeedValue

\* C26: a counter that stays with its code changes only when an invoice is
\* created for that code, and then by exactly 1; Delete Invoice, Edit
\* Invoice and Mark Invoice Paid leave every counter as it is.
C26_CounterSteps ==
    [][/\ \A c \in DOMAIN last_invoice_nums \cap DOMAIN last_invoice_nums' :
              last_invoice_nums'[c] # last_invoice_nums[c] =>
                  /\ last_invoice_nums'[c] = last_invoice_nums[c] + 1
                  /\ ret'.op = "create_invoice_gui"
                  /\ \E n \in DOMAIN invoices' :
                         /\ n \notin DOMAIN invoices \/ invoices'[n] # invoices[n]
                         /\ invoices'[n].customer.code = c
       /\ ret'.op \in {"delete_invoice_gui", "edit_invoice_gui",
                       "mark_invoice_paid_gui"} =>
              last_invoice_nums' = last_invoice_nums]_vars


(***************************************************************************)
(* C23, as stated: the queries change nothing and list what they should.   *)
(* A click on a customer (list invoices for a code) and the PDF button     *)
(* leave the aggregate and the document as they were; the customer list    *)
(* read at the start and after a customer is added holds every customer    *)
(* once, in ascending order of name; the invoice list read for a code      *)
(* holds exactly the invoices whose embedded customer has that code, each  *)
(* once, no invoice before one issued later.                               *)
(***************************************************************************)
QueryLists ==
    /\ ret'.op = "load" \/ (ret'.op = "add_customer_gui" /\ ret'.res = "Ok") =>
              LET list == app'.customers
              IN  /\ Len(list) = Cardinality(DOMAIN customers')
                  /\ {list[i] : i \in DOMAIN list} = {customers'[n] : n \in DOMAIN customers'}
                  /\ \A i \in 1..(Len(list) - 1) : StrLess(list[i].name, list[i + 1].name)
    /\ ret'.op = "select_customer" =>
              LET code == app'.selected_customer_code[1]
                  list == app'.invoices_for_selected_customer
                  wanted == {n \in DOMAIN invoices : invoices[n].customer.code = code}
              IN  /\ Len(list) = Cardinality(wanted)
                  /\ {list[i] : i \in DOMAIN list} = {invoices[n] : n \in wanted}
                  /\ \A i \in 1..(Len(list) - 1) :
                        ~DateLess(list[i].date, list[i + 1].date)

C24_PdfAtCallerPath ==
    [][ret'.op = "generate_pdf_gui" =>
          \A n \in DOMAIN invoices \cup {UnknownInvoice}, o \in PdfOutcomes :
              GeneratePdfGui(n, "out.pdf", o) =>
                  IF n \notin DOMAIN invoices
                  THEN ret'.res = "InvoiceNotFound" /\ pdf_files' = pdf_files
                  ELSE \/ /\ ret'.res = "Ok"
                          /\ ret'.val = "out.pdf"
                          /\ pdf_files' = pdf_files \cup {"out.pdf"}
                       \/ /\ ret'.res = "PdfGeneration"
                          /\ o # "ok"]_vars

(***************************************************************************)
(* C27: the customer selection follows an edit.  After Save Changes in the *)
(* edit customer dialog succeeds for the customer that is selected, the    *)
(* selection is the code the customer has now; and whenever a customer     *)
(* code is selected, a customer of the store has it.                       *)
(***************************************************************************)
C27_SelectionFollowsEdit ==
    [][/\ /\ ret'.op = "edit_customer_gui" /\ ret'.res = "Ok"
          /\ app.edit_customer_state.original_name \in DOMAIN customers
          /\ app.selected_customer_code =
                 Some(customers[app.edit_customer_state.original_name].code)
          => \A f \in GuiCustomerForms :
                 EditCustomerGui(app.edit_customer_state.original_name,
                                 FormCustomer(f), "ok") =>
                     app'.selected_customer_code = Some(FormCustomer(f).code)
       /\ app'.selected_customer_code # None =>
              \E n \in DOMAIN customers' :
                  customers'[n].code = app'.selected_customer_code[1]]_vars

(***************************************************************************)
(* C28: the invoice selection stays valid.  Whenever an invoice number is  *)
(* selected, an invoice of the list shown for the selected customer has    *)
(* that number.                                                            *)
(***************************************************************************)
C28_InvoiceSelectionListed ==
    app.selected_invoice_number # None =>
        \E i \in DOMAIN app.invoices_for_selected_customer :
            app.invoices_for_selected_customer[i].invoice_number =
                app.selected_invoice_number[1]

(***************************************************************************)
(* C29: the caches mirror the store.  After every GUI action that calls a  *)
(* record operation, whatever it returned, the cached customer list is     *)
(* get_customers_vec() of the store and, when a customer is selected, the  *)
(* cached invoice list is a list get_invoices_for_customer returns for the *)
(* selected code.                                                          *)
(***************************************************************************)
C29_CachesMirrorStore ==
    [][ret'.op \in {"add_customer_gui", "edit_customer_gui", "delete_customer_gui",
                    "create_invoice_gui", "edit_invoice_gui", "delete_invoice_gui",
                    "mark_invoice_paid_gui"} =>
          /\ app'.customers \in GetCustomersVec(customers')
          /\ app'.selected_customer_code # None =>
                 app'.invoices_for_selected_customer \in
                     GetInvoicesForCustomer(invoices', app'.selected_customer_code[1])]_vars

(***************************************************************************)
(* C31: the registry keys match the records.  Every key of the customer    *)
(* registry is the name of its customer and has no blank at either end,    *)
(* the customer's code is two or three upper-case ASCII letters, and every *)
(* key of the invoice registry is the number of its invoice.               *)
(***************************************************************************)
C31_KeysMatchRecords ==
    /\ \A k \in DOMAIN customers :
          /\ customers[k].name = k
          /\ Trim(k) = k
          /\ ValidCode(customers[k].code)
          /\ ToUppercase(customers[k].code) = customers[k].code
    /\ \A n \in DOMAIN invoices : invoices[n].invoice_number = n

\* the customer typed as " Bolt " with code " cd" is registered, renamed or
\* not, and an invoice is registered
C31_Witness ==
    /\ \E k \in DOMAIN customers : customers[k].code = "CD"
    /\ "Bolt" \in DOMAIN customers
    /\ DOMAIN invoices # {}
    /\ ret.op = "edit_customer_gui" /\ ret.res = "Ok"

(***************************************************************************)
(* C32: the backup step tolerates failures.  With no document it changes   *)
(* no backup file and succeeds; when removals of excess backups fail,      *)
(* every other excess backup is still removed; and whatever the backup     *)
(* step did, load() of a document that opens and reads returns it, while   *)
(* an open that fails gives Io and a document that does not read or parse  *)
(* gives Serialization.  The load is the one of the second clock'.         *)
(***************************************************************************)
C32_RotationTolerant ==
    [][ret'.op = "load" =>
          /\ disk.kind = "absent" => backups' = backups /\ ret'.val = "Ok"
          /\ \A b \in BackupOutcomes, o \in OpenOutcomes :
                \/ IF o = "err" THEN ret'.res = "Io"
                   ELSE IF disk.kind = "absent"
                   THEN ret'.res = "Ok" /\ Aggregate' = NewDatabase
                   ELSE IF o = "read_err" \/ disk.kind # "document"
                   THEN ret'.res = "Serialization"
                   ELSE \/ ret'.res = "Ok" /\ Document' = disk
                        \/ ret'.res = "Serialization" /\ LoadResult(disk) # "Ok"
                \/ ~New(clock', b, o)
          /\ \A failing \in SUBSET RemoveIndexes :
                \/ disk.kind = "absent"
                \/ ~New(clock', Backup(TRUE, "ok", "ok", failing), "ok")
                \/ LET names == DOMAIN backups \cup {BackupFilename(clock')}
                   IN  /\ \A f \in OldestBackups(names) :
                             SortedIndex(names, f) \notin failing
                                 => f \notin DOMAIN backups'
                       /\ BackupFilename(clock') \in DOMAIN backups'
                       /\ ret'.val = "Ok"]_vars

\* seven loads in seven seconds: no removal succeeded in the sixth, and in
\* the seventh the oldest of the two excess backups stayed and the other went
C32_Witness ==
    /\ Len(loads) = 7
    /\ \A i \in 1..6 : loads[i] < loads[i + 1]
    /\ backup_failures = 2
    /\ Cardinality(DOMAIN backups) = MAX_BACKUPS + 1
    /\ BackupFilename(loads[1]) \in DOMAIN backups
    /\ BackupFilename(loads[2]) \notin DOMAIN backups

(***************************************************************************)
(* C33: backups are made and rotated by load() alone.  A step that is not  *)
(* a load, be it a record operation or the save on the way out, leaves the *)
(* backup files as they are; and every backup file a step leaves either    *)
(* was there before with the same content, or was written by a load and is *)
(* the document as that load found it.                                     *)
(***************************************************************************)
C33_BackupsOnlyAtLoad ==
    [][/\ ret'.op # "load" => backups' = backups
       /\ \A f \in DOMAIN backups' :
             \/ f \in DOMAIN backups /\ backups'[f] = backups[f]
             \/ ret'.op = "load" /\ backups'[f] = disk]_vars

\* C34: in the console program the first invoice number issued for a code
\* that has no counter is <code>076, and each later number for a code is the
\* previous suffix plus one, zero-padded to three digits; the counter of the
\* code holds the suffix issued.  This also holds for the code a console edit
\* has just given the customer.
C34_ConsoleSequence ==
    [][(ret'.op = "create_invoice" /\ ret'.res = "Ok") =>
        \A n \in DOMAIN customers, d \in {2, 3} :
            MainCreateInvoice(n, Items1, d, 1, "ok") =>
                LET code == customers[n].code
                    suffix == IF code \in DOMAIN last_invoice_nums
                              THEN last_invoice_nums[code] + 1
                              ELSE SeedValue + 1
                IN  /\ ret'.val = code \o Pad3(suffix)
                    /\ code \in DOMAIN last_invoice_nums'
                    /\ last_invoice_nums'[code] = suffix]_vars

\* C35: in the console program no two customers share a name and no two
\* customers share a code.
C35_ConsoleUnique ==
    /\ \A k \in DOMAIN customers : customers[k].name = k
    /\ Cardinality({customers[k].code : k \in DOMAIN customers})
           = Cardinality(DOMAIN customers)

\* C36: the load of the console program never fails, and when the document
\* is absent, unreadable or malformed the aggregate it returns is the freshly
\* initialized one: the default company and empty registries.
C36_LenientLoad ==
    [][ret'.op = "load" =>
        /\ ret'.res = "Ok"
        /\ \A o \in OpenOutcomes :
             (MainStart(o)
                /\ (disk.kind # "document" \/ o # "ok" \/ LoadResult(disk) # "Ok")) =>
                    /\ company' = NewCompany
                    /\ customers' = EmptyMap
                    /\ invoices' = EmptyMap
                    /\ last_invoice_nums' = EmptyMap]_vars

C36_Witness ==
    /\ ret.op = "load" /\ ret.res = "Ok"
    /\ disk.kind = "malformed"
    /\ company = NewCompany
    /\ customers = EmptyMap /\ invoices = EmptyMap /\ last_invoice_nums = EmptyMap

====
